---- MODULE Spec2Model ----
(***************************************************************************)
(* A model of hdeps: the version selector (compatibility.py) and the       *)
(* concurrent dependency walker (resolution.py).                           *)
(*                                                                         *)
(* Versions are positive integers ordered as PEP 440 versions are; a       *)
(* SpecifierSet is one clause [op, v]; prerelease gating is delegated to   *)
(* the packaging library and is not part of this model.                    *)
(***************************************************************************)
EXTENDS Integers, Sequences, FiniteSets, TLC

(***************************************************************************)
(* Bounds of the model.                                                    *)
(***************************************************************************)
\* Versions 1..SelMaxVer exist in the selector's inputs.
SelMaxVer == 3

(***************************************************************************)
(* packaging: versions, specifiers, requires_python strings.               *)
(***************************************************************************)
\* Optional[Version] None / Optional[str] None.
NoVersion == 0

AnySpec == [op |-> "any", v |-> NoVersion]

SpecsOver(vs) == {AnySpec} \cup {[op |-> o, v |-> x] : o \in {"==", ">"}, x \in vs}

\* SpecifierSet.__contains__ / the test SpecifierSet.filter applies to each item.
Admits(spec, v) ==
    CASE spec.op = "any" -> TRUE
      [] spec.op = "==" -> v = spec.v
      [] spec.op = ">"  -> v > spec.v

\* SpecifierSet.filter(iterable): the admitted items, in the iterable's order.
SpecFilter(spec, seq) == SelectSeq(seq, LAMBDA v : Admits(spec, v))

\* The requires_python strings of the model: absent, invalid, and two bounds.
RpStrings == {"", "zzz", ">=3.7", ">=3.8"}

\* Interpreter versions (python_full_version), as major*10+minor.
PythonVersions == {37, 38}

\* SpecifierSet(s) raises InvalidSpecifier.
InvalidSpecifier(s) == s = "zzz"

\* python_version in SpecifierSet(s), for a valid s.
PythonIn(py, s) ==
    CASE s = ">=3.7" -> py >= 37
      [] s = ">=3.8" -> py >= 38
      [] OTHER -> FALSE

Reverse(seq) == [i \in 1..Len(seq) |-> seq[Len(seq) + 1 - i]]

SeqToSet(seq) == {seq[i] : i \in 1..Len(seq)}

(***************************************************************************)
(* compatibility.py                                                        *)
(***************************************************************************)
\* requires_python_match: the verdict and the cache after the call.
requires_python_match(project, cache, python_version, v) ==
    LET rp == project.requires_python[v] IN
    IF rp = "" THEN [verdict |-> TRUE, cache |-> cache]
    ELSE IF rp \in DOMAIN cache THEN [verdict |-> cache[rp], cache |-> cache]
    ELSE LET verdict == IF InvalidSpecifier(rp) THEN TRUE
                        ELSE PythonIn(python_version, rp)
         IN [verdict |-> verdict, cache |-> (rp :> verdict) @@ cache]

\* A plausible slip: the versions walked oldest first.
VersionOrderAscending(project) == project.versions

\* rev = reversed(project.versions.keys())
VersionOrder(project) == Reverse(project.versions)

\* The "initial filter" loop over req.specifier.filter(rev), from item i on.
RECURSIVE InitialFilter(_, _, _, _, _, _, _)
InitialFilter(project, spec, python_version, rev, i, cache, matched) ==
    IF i > Len(rev)
    THEN [possible |-> <<>>, cache |-> cache, specifier_matched |-> matched]
    ELSE IF ~Admits(spec, rev[i])
    THEN InitialFilter(project, spec, python_version, rev, i + 1, cache, matched)
    ELSE LET r == requires_python_match(project, cache, python_version, rev[i]) IN
         IF r.verdict
         THEN [possible |-> <<rev[i]>>, cache |-> r.cache, specifier_matched |-> TRUE]
         ELSE InitialFilter(project, spec, python_version, rev, i + 1, r.cache, TRUE)

BoolInt(b) == IF b THEN 1 ELSE 0

\* A plausible slip: the current version is compared before the chosen one.
SortKeyCurrentFirst(possible, already_chosen, cur_v, i) ==
    << BoolInt(possible[i] = cur_v), BoolInt(possible[i] = already_chosen),
       i, possible[i] >>

\* (p == already_chosen, p == cur_v, i, p) for item i of possible.
SortKey(possible, already_chosen, cur_v, i) ==
    << BoolInt(possible[i] = already_chosen), BoolInt(possible[i] = cur_v),
       i, possible[i] >>

\* Python's tuple ordering on the sort keys.
KeyLess(x, y) ==
    \E k \in 1..4 : x[k] < y[k] /\ \A j \in 1..(k - 1) : x[j] = y[j]

\* A plausible slip: the first item of the sorted list is returned.
BestFirst(possible, already_chosen, cur_v) ==
    possible[CHOOSE i \in 1..Len(possible) :
        \A j \in 1..Len(possible) : j # i =>
            KeyLess(SortKey(possible, already_chosen, cur_v, i),
                    SortKey(possible, already_chosen, cur_v, j))]

\* xform_possible[-1][3]: the item whose key sorts last.
Best(possible, already_chosen, cur_v) ==
    possible[CHOOSE i \in 1..Len(possible) :
        \A j \in 1..Len(possible) : j # i =>
            KeyLess(SortKey(possible, already_chosen, cur_v, j),
                    SortKey(possible, already_chosen, cur_v, i))]

\* A plausible slip: the current version is taken without the check.
CurIncludedAlways(project, cache, python_version, cur) == TRUE

\* "if cur_v in project.versions: if _requires_python_match(cur_v) ...
\* else: (non-public version, assume it's ok)"
CurIncluded(project, cache, python_version, cur) ==
    IF cur \in SeqToSet(project.versions)
    THEN requires_python_match(project, cache, python_version, cur).verdict
    ELSE TRUE

\* The candidates before the specifier re-filter: the newest compatible
\* release, then the callback's version, then already_chosen.
Candidates(project, req, python_version, already_chosen, cur) ==
    LET f == InitialFilter(project, req.specifier, python_version,
                           VersionOrder(project), 1, << >>, FALSE)
        with_cur ==
            IF cur # NoVersion /\ CurIncluded(project, f.cache, python_version, cur)
            THEN Append(f.possible, cur)
            ELSE f.possible
    IN [possible |-> IF already_chosen # NoVersion
                     THEN Append(with_cur, already_chosen) ELSE with_cur,
        specifier_matched |-> f.specifier_matched]

\* A plausible slip: the candidates are not filtered by the specifier again.
RefilterSkipped(spec, possible) == possible

\* possible = list(req.specifier.filter(possible))
Refilter(spec, possible) == SpecFilter(spec, possible)

\* A plausible slip: one message for both cases.
NoCandidateErrorGeneric(specifier_matched) == "no release matching"

\* The NoMatchingRelease raised "if not possible", before the re-filter.
NoCandidateError(specifier_matched) ==
    IF specifier_matched THEN "no python-compatible release"
    ELSE "no release matching"

\* find_best_compatible_version: [ok, version] or [ok = FALSE, error].
find_best_compatible_version(project, req, python_version, already_chosen, cur) ==
    LET c == Candidates(project, req, python_version, already_chosen, cur) IN
    IF c.possible = << >>
    THEN [ok |-> FALSE, version |-> NoVersion,
          error |-> NoCandidateError(c.specifier_matched)]
    ELSE LET possible == Refilter(req.specifier, c.possible) IN
         IF possible = << >>
         THEN [ok |-> FALSE, version |-> NoVersion,
               error |-> IF SpecFilter(req.specifier, project.versions) = << >>
                         THEN "no release with constraint"
                         ELSE "no python-compatible release with constraint"]
         ELSE [ok |-> TRUE, version |-> Best(possible, already_chosen, cur),
               error |-> ""]


(***************************************************************************)
(* markers.py                                                              *)
(***************************************************************************)
\* The markers of the model: none, and one the (linux) environment rejects.
Markers == {"", "sys_platform == 'win32'"}

\* EnvironmentMarkers.match(marker) without extras.
EnvMatch(marker) == marker = ""

\* The markers of the model that name an extra.
ExtraMarkers == {"extra == 'x'", "extra == 'y'"}

\* The extra a marker of ExtraMarkers names.
ExtraOf(marker) == IF marker = "extra == 'x'" THEN "x" ELSE "y"

\* A plausible slip: the marker is evaluated without the extras.
EnvMatchNoExtras(marker, extras) == EnvMatch(marker)

\* EnvironmentMarkers.match(marker, extras): with extras, some extra has
\* to satisfy the marker; without, the marker is evaluated with no extra.
EnvMatchExtras(marker, extras) ==
    IF marker \in ExtraMarkers THEN ExtraOf(marker) \in extras ELSE EnvMatch(marker)

(***************************************************************************)
(* resolution.py: the Walker                                               *)
(***************************************************************************)
VARIABLES
    pypi_simple,               \* the index: project pages and release metadata
    current_version_callback,  \* name -> version, or NoVersion
    parallelism,               \* max_workers of the pool
    root,                      \* self.root: the node that is the sentinel
    nodes,                     \* every Choice created, with the Edge that reaches it
    memo_fetch,                \* name -> which submitted future is stored (0: none)
    memo_version_metadata,     \* (name, version) -> which submitted future (0: none)
    memo_fetch_lock,           \* the holder of the mutex, or "free"
    queue,                     \* self.queue
    known_conflicts,           \* self.known_conflicts
    chosen,                    \* drain's local dict
    pc,                        \* where the calling thread is
    frame,                     \* the calling thread's locals
    pool_q,                    \* the pool's work queue: submitted, not started
    running,                   \* the tasks the pool's workers are executing
    done,                      \* the futures that have a result
    fetch_submitted,           \* name -> number of _fetch_project submissions
    metadata_submitted,        \* (name, version) -> number of metadata submissions
    calls,                     \* how many feed / clear / drain calls were made
    drain_result,              \* how the last drain call ended
    hist,                      \* history of the current drain call
    sel,                       \* a call of find_best_compatible_version on its own
    cli,                       \* a run of cli.main: its locals and its output
    cache,                     \* a SimpleCache directory and the threads using it
    call                       \* a call of a function on its own: input and output

vars == << pypi_simple, current_version_callback, parallelism, root, nodes,
           memo_fetch, memo_version_metadata, memo_fetch_lock, queue,
           known_conflicts, chosen, pc, frame, pool_q, running, done,
           fetch_submitted, metadata_submitted, calls, drain_result, hist, sel,
           cli, cache, call >>

\* Bounds of the walker model.
MaxVer == 2
MaxPar == 2
MaxFeeds == 2
MaxClears == 1
MaxDrains == 2

Names == {"a", "b"}
Versions == 1..MaxVer
PVKeys == Names \X Versions

\* Choice(CanonicalName("-"), Version("0")) with no incoming edge.
RootChoice ==
    [parent |-> 0, project |-> "-", version |-> NoVersion, extras |-> << >>,
     has_sdist |-> FALSE, has_wheel |-> FALSE,
     specifier |-> AnySpec, markers |-> "", note |-> ""]

\* Choice.key()
ChoiceKey(c) == << c.project, c.version, c.extras >>

ProjectTask(name, n) == [kind |-> "project", name |-> name, version |-> NoVersion, n |-> n]
MetadataTask(name, version, n) == [kind |-> "metadata", name |-> name, version |-> version, n |-> n]

NoReq == [name |-> "", specifier |-> AnySpec, marker |-> "", extras |-> {}]
IdleFrame ==
    [req |-> NoReq, name |-> "", choice |-> 0, parent_keys |-> {},
     version |-> NoVersion, fut2 |-> 0, i |-> 0]

\* project.versions.get(version): whether the selected version is a release.
Published(project, version) == version \in SeqToSet(project.versions)

\* max(project.versions)
LatestVersion(project) == project.versions[Len(project.versions)]

\* md.reqs of version.get_deps(...)
Reqs(name, version) == pypi_simple.metadata[<< name, version >>].reqs


(***************************************************************************)
(* The pool's workers.                                                     *)
(***************************************************************************)
\* Everything but the pool and the memo maps: what no worker task touches.
callerVars == << root, nodes, queue, known_conflicts, chosen, pc, frame,
                 calls, drain_result, hist >>
inputVars == << pypi_simple, current_version_callback, parallelism, sel, cli,
               cache, call >>

\* The task of activation w returns: its future gets its result.
Finish(w) ==
    /\ running' = running \ {w}
    /\ done' = done \cup {w.task}

\* A worker thread takes the oldest submitted task.
WorkerStart ==
    /\ pool_q # << >>
    /\ Cardinality(running) < parallelism
    /\ running' = running \cup
          {[task |-> Head(pool_q), i |-> 1,
            pc |-> IF Head(pool_q).kind = "project" THEN "fp_check" ELSE "md_check"]}
    /\ pool_q' = Tail(pool_q)
    /\ UNCHANGED << memo_fetch, memo_version_metadata, memo_fetch_lock, done,
                    fetch_submitted, metadata_submitted >>
    /\ UNCHANGED callerVars
    /\ UNCHANGED inputVars

\* _fetch_project: the page is fetched and parsed, and the memo is read for
\* the latest release (no lock is taken).
FetchProjectCheck(w) ==
    /\ w.pc = "fp_check"
    /\ LET project == pypi_simple.project[w.task.name] IN
       IF project.versions # << >>
          /\ memo_version_metadata[<< w.task.name, LatestVersion(project) >>] = 0
       THEN /\ running' = (running \ {w}) \cup {[w EXCEPT !.pc = "fp_submit"]}
            /\ UNCHANGED done
       ELSE Finish(w)
    /\ UNCHANGED << memo_fetch, memo_version_metadata, memo_fetch_lock, pool_q,
                    fetch_submitted, metadata_submitted >>
    /\ UNCHANGED callerVars
    /\ UNCHANGED inputVars

\* _fetch_project: the metadata fetch of the latest release is submitted and
\* stored, and the task returns.
FetchProjectSubmit(w) ==
    /\ w.pc = "fp_submit"
    /\ LET k == << w.task.name, LatestVersion(pypi_simple.project[w.task.name]) >>
           n == metadata_submitted[k] + 1
       IN /\ metadata_submitted' = [metadata_submitted EXCEPT ![k] = n]
          /\ memo_version_metadata' = [memo_version_metadata EXCEPT ![k] = n]
          /\ pool_q' = Append(pool_q, MetadataTask(k[1], k[2], n))
    /\ Finish(w)
    /\ UNCHANGED << memo_fetch, memo_fetch_lock, fetch_submitted >>
    /\ UNCHANGED callerVars
    /\ UNCHANGED inputVars

\* The activation after requirement w.i of the prefetch loop: the next
\* requirement, or the return of _fetch_project_metadata.
PrefetchNext(w) ==
    IF w.i < Len(Reqs(w.task.name, w.task.version))
    THEN /\ running' = (running \ {w}) \cup {[w EXCEPT !.pc = "md_check", !.i = w.i + 1]}
         /\ UNCHANGED done
    ELSE Finish(w)

\* _fetch_project_metadata: get_deps, then for requirement i the unlocked
\* look at memo_fetch and the marker.
FetchMetadataCheck(w) ==
    /\ w.pc = "md_check"
    /\ LET reqs == Reqs(w.task.name, w.task.version) IN
       IF w.i > Len(reqs) THEN Finish(w)
       ELSE IF memo_fetch[reqs[w.i].name] = 0 /\ EnvMatch(reqs[w.i].marker)
       THEN /\ running' = (running \ {w}) \cup {[w EXCEPT !.pc = "md_lock"]}
            /\ UNCHANGED done
       ELSE PrefetchNext(w)
    /\ UNCHANGED << memo_fetch, memo_version_metadata, memo_fetch_lock, pool_q,
                    fetch_submitted, metadata_submitted >>
    /\ UNCHANGED callerVars
    /\ UNCHANGED inputVars

\* A plausible slip: the prefetch goes on to its insert without the mutex.
FetchMetadataNoLock(w) ==
    /\ w.pc = "md_lock"
    /\ running' = (running \ {w}) \cup {[w EXCEPT !.pc = "md_locked"]}
    /\ UNCHANGED << memo_fetch, memo_version_metadata, memo_fetch_lock, pool_q, done,
                    fetch_submitted, metadata_submitted >>
    /\ UNCHANGED callerVars
    /\ UNCHANGED inputVars

\* with self.memo_fetch_lock: (the worker gets the mutex)
FetchMetadataLock(w) ==
    /\ w.pc = "md_lock"
    /\ memo_fetch_lock = "free"
    /\ memo_fetch_lock' = "worker"
    /\ running' = (running \ {w}) \cup {[w EXCEPT !.pc = "md_locked"]}
    /\ UNCHANGED << memo_fetch, memo_version_metadata, pool_q, done,
                    fetch_submitted, metadata_submitted >>
    /\ UNCHANGED callerVars
    /\ UNCHANGED inputVars

\* A plausible slip: no second look under the lock.
PrefetchRecheckSkipped(name) == TRUE

\* "if name not in self.memo_fetch" under the lock, in the prefetch.
PrefetchRecheck(name) == memo_fetch[name] = 0

\* A plausible slip: the mutex is not released after the prefetch's insert.
LockKeptAfterPrefetch == memo_fetch_lock

\* The mutex when the worker leaves the with block.
LockAfterPrefetch == "free"

\* A plausible slip: the prefetch also queues the requirement for the walk.
PrefetchEnqueues(w) ==
    /\ queue' = Append(queue, [parent |-> root,
                               name |-> Reqs(w.task.name, w.task.version)[w.i].name,
                               req |-> Reqs(w.task.name, w.task.version)[w.i],
                               source |-> "dep", parent_keys |-> {}])
    /\ UNCHANGED << root, nodes, known_conflicts, chosen, pc, frame, calls,
                    drain_result, hist >>

\* What the prefetch does to the walk's own state: nothing.
PrefetchFrame(w) == UNCHANGED callerVars

\* The body of the with block in the prefetch, and the release.
FetchMetadataLocked(w) ==
    /\ w.pc = "md_locked"
    /\ LET name == Reqs(w.task.name, w.task.version)[w.i].name
           n == fetch_submitted[name] + 1
       IN IF PrefetchRecheck(name)
          THEN /\ fetch_submitted' = [fetch_submitted EXCEPT ![name] = n]
               /\ memo_fetch' = [memo_fetch EXCEPT ![name] = n]
               /\ pool_q' = Append(pool_q, ProjectTask(name, n))
          ELSE UNCHANGED << fetch_submitted, memo_fetch, pool_q >>
    /\ memo_fetch_lock' = LockAfterPrefetch
    /\ PrefetchNext(w)
    /\ UNCHANGED << memo_version_metadata, metadata_submitted >>
    /\ PrefetchFrame(w)
    /\ UNCHANGED inputVars


(***************************************************************************)
(* The calling thread: feed, clear, drain.                                 *)
(***************************************************************************)
poolVars == << pool_q, running, done, fetch_submitted, metadata_submitted >>

\* The requirements a caller feeds: every name, with and without a pin and
\* a marker, and b[x].
SeedReqs ==
    {[name |-> n, specifier |-> s, marker |-> m, extras |-> {}] :
        n \in Names, s \in {AnySpec, [op |-> "==", v |-> 1]}, m \in Markers}
    \cup {[name |-> "b", specifier |-> AnySpec, marker |-> "", extras |-> {"x"}]}

\* feed(req) with a marker the environment rejects: nothing happens.
FeedRejected(req) ==
    /\ pc = "idle"
    /\ calls.feed < MaxFeeds
    /\ req.marker # "" /\ ~EnvMatch(req.marker)
    /\ calls' = [calls EXCEPT !.feed = @ + 1]
    /\ UNCHANGED << root, nodes, memo_fetch, memo_version_metadata, memo_fetch_lock,
                    queue, known_conflicts, chosen, pc, frame, drain_result, hist >>
    /\ UNCHANGED poolVars
    /\ UNCHANGED inputVars

\* feed(req): the marker is accepted and the mutex is taken.
Feed(req) ==
    /\ pc = "idle"
    /\ calls.feed < MaxFeeds
    /\ ~(req.marker # "" /\ ~EnvMatch(req.marker))
    /\ memo_fetch_lock = "free"
    /\ memo_fetch_lock' = "main"
    /\ pc' = "feed_locked"
    /\ frame' = [IdleFrame EXCEPT !.req = req, !.name = req.name]
    /\ calls' = [calls EXCEPT !.feed = @ + 1]
    /\ UNCHANGED << root, nodes, memo_fetch, memo_version_metadata, queue,
                    known_conflicts, chosen, drain_result, hist >>
    /\ UNCHANGED poolVars
    /\ UNCHANGED inputVars

\* A plausible slip: the root's key is put among the ancestors.
FeedEntryRootAncestor(req) ==
    [parent |-> root, name |-> req.name, req |-> req, source |-> "arg",
     parent_keys |-> {ChoiceKey(nodes[root])}]

\* The entry feed appends: an edge from root with no ancestors.
FeedEntry(req) ==
    [parent |-> root, name |-> req.name, req |-> req, source |-> "arg",
     parent_keys |-> {}]

\* feed(req): the body of the with block, the release and the append.
FeedLocked ==
    /\ pc = "feed_locked"
    /\ LET name == frame.name
           n == fetch_submitted[name] + 1
       IN IF memo_fetch[name] = 0
          THEN /\ fetch_submitted' = [fetch_submitted EXCEPT ![name] = n]
               /\ memo_fetch' = [memo_fetch EXCEPT ![name] = n]
               /\ pool_q' = Append(pool_q, ProjectTask(name, n))
          ELSE UNCHANGED << fetch_submitted, memo_fetch, pool_q >>
    /\ memo_fetch_lock' = "free"
    /\ queue' = Append(queue, FeedEntry(frame.req))
    /\ pc' = "idle"
    /\ frame' = IdleFrame
    /\ UNCHANGED << root, nodes, memo_version_metadata, known_conflicts, chosen,
                    calls, drain_result, hist, running, done, metadata_submitted >>
    /\ UNCHANGED inputVars

\* A plausible slip: clear() empties the memo map too.
MemoEmptiedByClear(memo) == [k \in DOMAIN memo |-> 0]

\* clear() does not touch memo_fetch or memo_version_metadata.
MemoAfterClear(memo) == memo

\* A plausible slip: clear() forgets the conflict table.
ConflictsKeptByClear == known_conflicts

\* self.known_conflicts.clear()
ConflictsAfterClear == << >>

\* clear(): a fresh root, an empty conflict table.
Clear ==
    /\ pc = "idle"
    /\ calls.clear < MaxClears
    /\ nodes' = Append(nodes, RootChoice)
    /\ root' = Len(nodes) + 1
    /\ known_conflicts' = ConflictsAfterClear
    /\ memo_fetch' = MemoAfterClear(memo_fetch)
    /\ memo_version_metadata' = MemoAfterClear(memo_version_metadata)
    /\ calls' = [calls EXCEPT !.clear = @ + 1]
    /\ hist' = [hist EXCEPT !.since_clear = [n \in Names |-> {}], !.differed = {}]
    /\ UNCHANGED << memo_fetch_lock, queue, chosen, pc, frame, drain_result >>
    /\ UNCHANGED poolVars
    /\ UNCHANGED inputVars

\* The history kept of drain calls: the entries the current call has
\* processed, the versions it has recorded in chosen, the names that had a
\* conflict entry when it began, the caller's state and the count of the
\* client's calls when it began, the versions recorded in chosen since the
\* last clear(), the names for which since the last clear() a version was
\* recorded in chosen that differed from the one chosen held, and the
\* releases whose metadata any drain call has read.
NoHist ==
    [visited |-> << >>, recorded |-> [n \in Names |-> {}], had_entry |-> {},
     start |-> [queue |-> << >>, nodes |-> << >>, known_conflicts |-> << >>,
                calls |-> [feed |-> 0, clear |-> 0, drain |-> 0]],
     since_clear |-> [n \in Names |-> {}],
     differed |-> {},
     consulted |-> {}]

\* drain(): chosen = {}
DrainStart ==
    /\ pc = "idle"
    /\ calls.drain < MaxDrains
    /\ chosen' = << >>
    /\ pc' = "drain_loop"
    /\ drain_result' = "running"
    /\ calls' = [calls EXCEPT !.drain = @ + 1]
    /\ hist' = [NoHist EXCEPT
            !.had_entry = DOMAIN known_conflicts,
            !.start = [queue |-> queue, nodes |-> nodes,
                       known_conflicts |-> known_conflicts, calls |-> calls'],
            !.since_clear = hist.since_clear,
            !.differed = hist.differed,
            !.consulted = hist.consulted]
    /\ UNCHANGED << root, nodes, memo_fetch, memo_version_metadata, memo_fetch_lock,
                    queue, known_conflicts, frame >>
    /\ UNCHANGED poolVars
    /\ UNCHANGED inputVars

\* while self.queue: (the queue is empty, drain returns)
DrainReturn ==
    /\ pc = "drain_loop"
    /\ queue = << >>
    /\ pc' = "idle"
    /\ drain_result' = "returned"
    /\ UNCHANGED << root, nodes, memo_fetch, memo_version_metadata, memo_fetch_lock,
                    queue, known_conflicts, chosen, frame, calls, hist >>
    /\ UNCHANGED poolVars
    /\ UNCHANGED inputVars

\* A plausible slip: drain passes no already chosen version.
ChosenGetNothing(ch, name) == NoVersion

\* chosen.get(name)
ChosenGet(ch, name) == IF name \in DOMAIN ch THEN ch[name] ELSE NoVersion

\* The interpreter of the environment (env_markers.python_full_version).
EnvPython == 37

\* The selection drain makes for queue entry e when its dict is ch.
Selection(e, ch) ==
    find_best_compatible_version(pypi_simple.project[e.name], e.req, EnvPython,
                                 ChosenGet(ch, e.name), current_version_callback[e.name])

\* A plausible slip: has_sdist and has_wheel default to true.
NewChoiceHasFiles(e, version) ==
    [parent |-> e.parent, project |-> e.name, version |-> version, extras |-> << >>,
     has_sdist |-> TRUE, has_wheel |-> TRUE,
     specifier |-> e.req.specifier, markers |-> e.req.marker, note |-> e.source]

\* Choice(name, version) and the Edge that attaches it to e's parent.
NewChoice(e, version) ==
    [parent |-> e.parent, project |-> e.name, version |-> version, extras |-> << >>,
     has_sdist |-> FALSE, has_wheel |-> FALSE,
     specifier |-> e.req.specifier, markers |-> e.req.marker, note |-> e.source]

\* A plausible slip: no cycle guard.
IsCircularNever(key, parent_keys) == FALSE

\* "if choice.key() in parent_keys"
IsCircular(key, parent_keys) == key \in parent_keys

\* A plausible slip: only the new version is recorded as conflicting.
ConflictVersionsNewOnly(cur, version) == {version}

\* The versions a conflict adds: update([cur, version]).
ConflictVersions(cur, version) == {cur, version}

\* A plausible slip: "if cur:" for "if cur and cur != version", every
\* re-entry of a project is recorded as a conflict.
ConflictsAfterAnyReentry(kc, name, cur, version) ==
    IF cur # NoVersion
    THEN [n \in DOMAIN kc \cup {name} |->
            IF n = name
            THEN (IF n \in DOMAIN kc THEN kc[n] ELSE {}) \cup ConflictVersions(cur, version)
            ELSE kc[n]]
    ELSE kc

\* The conflict table kc after the step that selects version for name
\* when chosen holds cur.
ConflictsAfter(kc, name, cur, version) ==
    IF cur # NoVersion /\ cur # version
    THEN [n \in DOMAIN kc \cup {name} |->
            IF n = name
            THEN (IF n \in DOMAIN kc THEN kc[n] ELSE {}) \cup ConflictVersions(cur, version)
            ELSE kc[n]]
    ELSE kc

\* A plausible slip: the memo is not consulted before the metadata submit.
MetadataMemoMissAlways(t) == TRUE

\* "if t not in self.memo_version_metadata" in drain.
MetadataMemoMiss(t) == memo_version_metadata[t] = 0

\* A plausible slip: the error is swallowed and the loop goes on.
ContinueAfterNoMatchingRelease == "drain_loop"

\* drain has no try: the exception leaves the loop and the call.
AfterNoMatchingRelease == "idle"

\* A plausible slip: pop() for popleft(), the newest entry is taken.
PopIndexNewest(q) == Len(q)

\* self.queue.popleft(): the position of the entry taken.
PopIndex(q) == 1

\* The deque without the entry at position i.
WithoutEntry(q, i) == SubSeq(q, 1, i - 1) \o SubSeq(q, i + 1, Len(q))

\* One entry is popped, its project awaited, a version selected and the
\* child attached; the memo is read for the selected release.
DrainProcess ==
    /\ pc = "drain_loop"
    /\ queue # << >>
    /\ LET e == queue[PopIndex(queue)] IN
       \* fut = self.memo_fetch[name]; project = fut.result()
       /\ memo_fetch[e.name] # 0
       /\ ProjectTask(e.name, memo_fetch[e.name]) \in done
       /\ LET pick == Selection(e, chosen)
              cur == ChosenGet(chosen, e.name)
              choice == NewChoice(e, pick.version)
              t == << e.name, pick.version >>
          IN
          /\ queue' = WithoutEntry(queue, PopIndex(queue))
          /\ hist' = [hist EXCEPT
                !.visited = Append(@, [name |-> e.name, req |-> e.req]),
                !.recorded = IF pick.ok /\ ~IsCircular(ChoiceKey(choice), e.parent_keys)
                             THEN [@ EXCEPT ![e.name] = @ \cup {pick.version}] ELSE @,
                !.since_clear = IF pick.ok /\ ~IsCircular(ChoiceKey(choice), e.parent_keys)
                                THEN [@ EXCEPT ![e.name] = @ \cup {pick.version}] ELSE @,
                !.differed = IF /\ pick.ok
                                /\ ~IsCircular(ChoiceKey(choice), e.parent_keys)
                                /\ e.name \in DOMAIN chosen
                                /\ chosen[e.name] # pick.version
                             THEN @ \cup {e.name} ELSE @]
          /\ IF ~pick.ok
             THEN \* NoMatchingRelease propagates out of drain
                  /\ pc' = AfterNoMatchingRelease
                  /\ drain_result' = "raised"
                  /\ UNCHANGED << nodes, known_conflicts, chosen, frame >>
             ELSE /\ nodes' = Append(nodes, choice)
                  /\ drain_result' = drain_result
                  /\ IF IsCircular(ChoiceKey(choice), e.parent_keys)
                     THEN UNCHANGED << known_conflicts, chosen, pc, frame >>
                     ELSE /\ known_conflicts' = ConflictsAfter(known_conflicts, e.name, cur, pick.version)
                          /\ chosen' = (e.name :> pick.version) @@ chosen
                          /\ IF Published(pypi_simple.project[e.name], pick.version)
                             THEN /\ frame' = [req |-> e.req, name |-> e.name,
                                               choice |-> Len(nodes) + 1,
                                               parent_keys |-> e.parent_keys,
                                               version |-> pick.version,
                                               fut2 |-> memo_version_metadata[t],
                                               i |-> 0]
                                  /\ pc' = IF MetadataMemoMiss(t)
                                           THEN "drain_md_submit" ELSE "drain_md_wait"
                             ELSE UNCHANGED << pc, frame >>
    /\ UNCHANGED << root, memo_fetch, memo_version_metadata, memo_fetch_lock, calls >>
    /\ UNCHANGED poolVars
    /\ UNCHANGED inputVars

\* fut2 = self.pool.submit(...); self.memo_version_metadata[t] = fut2
DrainMetadataSubmit ==
    /\ pc = "drain_md_submit"
    /\ LET t == << frame.name, frame.version >>
           n == metadata_submitted[t] + 1
       IN /\ metadata_submitted' = [metadata_submitted EXCEPT ![t] = n]
          /\ memo_version_metadata' = [memo_version_metadata EXCEPT ![t] = n]
          /\ pool_q' = Append(pool_q, MetadataTask(t[1], t[2], n))
          /\ frame' = [frame EXCEPT !.fut2 = n]
    /\ pc' = "drain_md_wait"
    /\ UNCHANGED << root, nodes, memo_fetch, memo_fetch_lock, queue, known_conflicts,
                    chosen, calls, drain_result, hist, running, done, fetch_submitted >>
    /\ UNCHANGED inputVars

\* The calling thread after requirement i of the dependency loop.
DepNext(i) ==
    IF i < Len(Reqs(frame.name, frame.version))
    THEN /\ pc' = "drain_deps"
         /\ frame' = [frame EXCEPT !.i = i + 1]
    ELSE /\ pc' = "drain_loop"
         /\ frame' = IdleFrame

\* md = fut2.result(); has_sdist and has_wheel are copied to the child.
DrainMetadataResult ==
    /\ pc = "drain_md_wait"
    /\ MetadataTask(frame.name, frame.version, frame.fut2) \in done
    /\ LET md == pypi_simple.metadata[<< frame.name, frame.version >>] IN
       nodes' = [nodes EXCEPT ![frame.choice].has_sdist = md.has_sdist,
                              ![frame.choice].has_wheel = md.has_wheel]
    /\ DepNext(0)
    /\ hist' = [hist EXCEPT !.consulted = @ \cup {<< frame.name, frame.version >>}]
    /\ UNCHANGED << root, memo_fetch, memo_version_metadata, memo_fetch_lock, queue,
                    known_conflicts, chosen, calls, drain_result >>
    /\ UNCHANGED poolVars
    /\ UNCHANGED inputVars

\* self.env_markers.match(r.marker, sorted(req.extras)) in drain.
DrainMatch(r, req) == EnvMatchExtras(r.marker, req.extras)

\* Requirement i of the selected release: its marker is evaluated and, when
\* it matches, the mutex is taken.
DrainDep ==
    /\ pc = "drain_deps"
    /\ LET r == Reqs(frame.name, frame.version)[frame.i] IN
       IF DrainMatch(r, frame.req)
       THEN /\ memo_fetch_lock = "free"
            /\ memo_fetch_lock' = "main"
            /\ pc' = "drain_dep_locked"
            /\ UNCHANGED frame
       ELSE /\ DepNext(frame.i)
            /\ UNCHANGED memo_fetch_lock
    /\ UNCHANGED << root, nodes, memo_fetch, memo_version_metadata, queue,
                    known_conflicts, chosen, calls, drain_result, hist >>
    /\ UNCHANGED poolVars
    /\ UNCHANGED inputVars

\* The entry drain appends for dependency r of the child: node c, whose key
\* is key and whose entry had the ancestor keys parent_keys.
DepEntry(c, key, parent_keys, r) ==
    [parent |-> c, name |-> r.name, req |-> r, source |-> "dep",
     parent_keys |-> parent_keys \cup {key}]

\* A plausible slip: the append sits inside "if r_name not in self.memo_fetch".
QueueAfterDepOnlyNew(r) ==
    IF memo_fetch[r.name] = 0
    THEN Append(queue, DepEntry(frame.choice, ChoiceKey(nodes[frame.choice]),
                                frame.parent_keys, r))
    ELSE queue

\* self.queue.append((choice, r_name, r, "dep", parent_keys | {choice.key()}))
QueueAfterDep(r) ==
    Append(queue, DepEntry(frame.choice, ChoiceKey(nodes[frame.choice]),
                           frame.parent_keys, r))

\* A plausible slip: drain submits the fetch without looking at the memo.
DepFetchMissingAlways(name) == TRUE

\* A plausible slip: drain appends the dependency without scheduling it.
DepFetchMissingNever(name) == FALSE

\* "if r_name not in self.memo_fetch" in drain, under the mutex.
DepFetchMissing(name) == memo_fetch[name] = 0

\* The body of the with block in drain, the release and the append.
DrainDepLocked ==
    /\ pc = "drain_dep_locked"
    /\ LET r == Reqs(frame.name, frame.version)[frame.i]
           n == fetch_submitted[r.name] + 1
       IN /\ IF DepFetchMissing(r.name)
             THEN /\ fetch_submitted' = [fetch_submitted EXCEPT ![r.name] = n]
                  /\ memo_fetch' = [memo_fetch EXCEPT ![r.name] = n]
                  /\ pool_q' = Append(pool_q, ProjectTask(r.name, n))
             ELSE UNCHANGED << fetch_submitted, memo_fetch, pool_q >>
          /\ queue' = QueueAfterDep(r)
    /\ memo_fetch_lock' = "free"
    /\ DepNext(frame.i)
    /\ UNCHANGED << root, nodes, memo_version_metadata, known_conflicts, chosen,
                    calls, drain_result, hist, running, done, metadata_submitted >>
    /\ UNCHANGED inputVars


(***************************************************************************)
(* The index, the initial state, the next-state relation.                  *)
(***************************************************************************)
\* Project.from_pypi_simple_project_page: the releases sorted ascending.
ProjectPage(name, versions) ==
    [name |-> name, versions |-> versions,
     requires_python |-> [v \in SeqToSet(versions) |-> ""]]

Req(name, specifier, marker) ==
    [name |-> name, specifier |-> specifier, marker |-> marker, extras |-> {}]

\* Requirement("name[extras] specifier ; marker")
ReqWithExtras(name, specifier, marker, extras) ==
    [name |-> name, specifier |-> specifier, marker |-> marker, extras |-> extras]

AllVersions == [i \in 1..MaxVer |-> i]

\* What the releases of project "a" require, by release, in the index
\* contents of the model:
\*  - "b": exactly the oldest release for release 1, a newer one for the rest;
\*  - "a" itself: its newest release for release 1, any release for the rest;
\*  - "b": a release that does not exist for release 1; for the rest "b" twice,
\*    first behind a marker the environment rejects, then plainly.
ReqPatternsA ==
    {[v \in Versions |->
        << Req("b", IF v = 1 THEN [op |-> "==", v |-> 1] ELSE [op |-> ">", v |-> 1], "") >>],
     [v \in Versions |->
        << Req("a", IF v = 1 THEN [op |-> "==", v |-> MaxVer] ELSE AnySpec, "") >>],
     [v \in Versions |->
        IF v = 1 THEN << Req("b", [op |-> ">", v |-> MaxVer], "") >>
        ELSE << Req("b", AnySpec, "sys_platform == 'win32'"), Req("b", AnySpec, "") >>]}

\* What the releases of project "b" require: nothing, or "a" back.
ReqPatternsB ==
    {[v \in Versions |-> << >>],
     [v \in Versions |-> << Req("a", AnySpec, "") >>]}

\* An index in which extras decide the dependencies: every release of "a"
\* requires b[x]; every release of "b" requires a[y] under the extra y and
\* a under the extra x.
ExtrasUniverse ==
    [project |-> [n \in Names |-> ProjectPage(n, AllVersions)],
     metadata |-> [k \in PVKeys |->
                     [reqs |-> IF k[1] = "a"
                               THEN << ReqWithExtras("b", AnySpec, "", {"x"}) >>
                               ELSE << ReqWithExtras("a", AnySpec, "extra == 'y'", {"y"}),
                                       Req("a", AnySpec, "extra == 'x'") >>,
                      has_sdist |-> TRUE, has_wheel |-> TRUE]]]

Universes ==
    {[project |-> [n \in Names |-> ProjectPage(n, AllVersions)],
      metadata |-> [k \in PVKeys |->
                      [reqs |-> IF k[1] = "a" THEN pa[k[2]] ELSE pb[k[2]],
                       has_sdist |-> TRUE, has_wheel |-> TRUE]]] :
        pa \in ReqPatternsA, pb \in ReqPatternsB}
    \cup {ExtrasUniverse}

\* The callbacks of the model: no current versions, or an unpublished
\* current version of "a".
Callbacks ==
    {[n \in Names |-> NoVersion],
     [n \in Names |-> IF n = "a" THEN MaxVer + 1 ELSE NoVersion]}

NoSel == [stage |-> "none"]

NoMain == [pc |-> "none"]

CacheUnused == [clients |-> 0]

NoCall == [stage |-> "none"]

WalkerInit ==
    /\ root = 1
    /\ nodes = << RootChoice >>
    /\ memo_fetch = [n \in Names |-> 0]
    /\ memo_version_metadata = [k \in PVKeys |-> 0]
    /\ memo_fetch_lock = "free"
    /\ queue = << >>
    /\ known_conflicts = << >>
    /\ chosen = << >>
    /\ pc = "idle"
    /\ frame = IdleFrame
    /\ pool_q = << >>
    /\ running = {}
    /\ done = {}
    /\ fetch_submitted = [n \in Names |-> 0]
    /\ metadata_submitted = [k \in PVKeys |-> 0]
    /\ calls = [feed |-> 0, clear |-> 0, drain |-> 0]
    /\ drain_result = "none"
    /\ hist = NoHist

\* Walker(parallelism, env_markers, pypi_simple, ..., current_version_callback)
Init ==
    /\ pypi_simple \in Universes
    /\ current_version_callback \in Callbacks
    /\ parallelism \in 1..MaxPar
    /\ WalkerInit
    /\ sel = NoSel
    /\ cli = NoMain
    /\ cache = CacheUnused
    /\ call = NoCall

Next ==
    \/ \E req \in SeedReqs : FeedRejected(req)
    \/ \E req \in SeedReqs : Feed(req)
    \/ FeedLocked
    \/ Clear
    \/ DrainStart
    \/ DrainReturn
    \/ DrainProcess
    \/ DrainMetadataSubmit
    \/ DrainMetadataResult
    \/ DrainDep
    \/ DrainDepLocked
    \/ WorkerStart
    \/ \E w \in running : FetchProjectCheck(w)
    \/ \E w \in running : FetchProjectSubmit(w)
    \/ \E w \in running : FetchMetadataCheck(w)
    \/ \E w \in running : FetchMetadataLock(w)
    \/ \E w \in running : FetchMetadataLocked(w)

Spec == Init /\ [][Next]_vars

\* A step of a pool worker, and a step of the thread that called drain or
\* feed once it is inside the call.
WorkerStep ==
    \/ WorkerStart
    \/ \E w \in running :
          \/ FetchProjectCheck(w)
          \/ FetchProjectSubmit(w)
          \/ FetchMetadataCheck(w)
          \/ FetchMetadataLock(w)
          \/ FetchMetadataLocked(w)

CallerStep ==
    \/ FeedLocked
    \/ DrainReturn
    \/ DrainProcess
    \/ DrainMetadataSubmit
    \/ DrainMetadataResult
    \/ DrainDep
    \/ DrainDepLocked

\* The seeds of the one walk of SolveNext.
MaxSeeds == 1

\* One walk as cli.solve makes it: the seeds are fed, then drain is called.
SolveNext ==
    \/ calls.drain = 0 /\ calls.feed < MaxSeeds /\ \E req \in SeedReqs : FeedRejected(req)
    \/ calls.drain = 0 /\ calls.feed < MaxSeeds /\ \E req \in SeedReqs : Feed(req)
    \/ calls.drain = 0 /\ DrainStart
    \/ CallerStep
    \/ WorkerStep

\* Every submitted task eventually runs and every fetch returns; a thread
\* inside feed or drain keeps running.  Whether and when the client calls
\* feed or drain is left open.
FairSpec ==
    /\ Init
    /\ [][SolveNext]_vars
    /\ WF_vars(WorkerStep)
    /\ WF_vars(CallerStep)


(***************************************************************************)
(* find_best_compatible_version on its own: every project over the         *)
(* versions 1..SelMaxVer, every specifier, already_chosen value, callback  *)
(* result and interpreter of the model.                                    *)
(***************************************************************************)
\* The ascending sequence of the elements of a set of versions.
RECURSIVE SortedSeq(_)
SortedSeq(S) ==
    IF S = {} THEN << >>
    ELSE LET m == CHOOSE x \in S : \A y \in S : y <= x
         IN Append(SortedSeq(S \ {m}), m)

SelVersions == 1..SelMaxVer

SelProjects ==
    {[name |-> "a", versions |-> SortedSeq(S), requires_python |-> rp] :
        S \in SUBSET SelVersions, rp \in [SelVersions -> RpStrings]}

SelInputs ==
    {[stage |-> "input", project |-> p,
      req |-> Req("a", s, ""), already_chosen |-> ac, cur |-> cur,
      python_version |-> py] :
        p \in {q \in SelProjects :
                 \A v \in SelVersions \ SeqToSet(q.versions) : q.requires_python[v] = ""},
        s \in SpecsOver(SelVersions),
        ac \in {NoVersion} \cup SelVersions,
        cur \in {NoVersion} \cup SelVersions,
        py \in PythonVersions}

SelInit ==
    /\ sel \in SelInputs
    /\ pypi_simple = CHOOSE u \in Universes : TRUE
    /\ current_version_callback = [n \in Names |-> NoVersion]
    /\ parallelism = 1
    /\ WalkerInit
    /\ cli = NoMain
    /\ cache = CacheUnused
    /\ call = NoCall

\* version = find_best_compatible_version(project, req, env_markers, cur, callback)
SelApply ==
    /\ sel.stage = "input"
    /\ sel' = [stage |-> "output", project |-> sel.project, req |-> sel.req,
               already_chosen |-> sel.already_chosen, cur |-> sel.cur,
               python_version |-> sel.python_version,
               result |-> find_best_compatible_version(
                             sel.project, sel.req, sel.python_version,
                             sel.already_chosen, sel.cur)]
    /\ UNCHANGED << pypi_simple, current_version_callback, parallelism, cli,
                    cache, call >>
    /\ UNCHANGED << memo_fetch, memo_version_metadata, memo_fetch_lock >>
    /\ UNCHANGED callerVars
    /\ UNCHANGED poolVars

SelNext == SelApply

SelSpec == SelInit /\ [][SelNext]_vars


(***************************************************************************)
(* Claims about the selector (checked under SelSpec).                      *)
(***************************************************************************)
SelReturned == sel.stage = "output" /\ sel.result.ok

\* V's requires_python is absent, is invalid, or admits the interpreter.
RequiresPythonOk(project, python_version, v) ==
    LET rp == project.requires_python[v] IN
    rp = "" \/ InvalidSpecifier(rp) \/ PythonIn(python_version, rp)

\* V is a release of the project that the interpreter can use.
Compatible(project, python_version, v) ==
    /\ v \in SeqToSet(project.versions)
    /\ RequiresPythonOk(project, python_version, v)

\* C8 as written: a returned version V is admitted by the specifier and is
\* either a release with a usable requires_python or the callback's version.
C8_Original ==
    (SelReturned /\ sel.project.versions # << >>) =>
        /\ Admits(sel.req.specifier, sel.result.version)
        /\ \/ Compatible(sel.project, sel.python_version, sel.result.version)
           \/ sel.result.version = sel.cur

\* C8, amended: a returned version V is admitted by the specifier and is a
\* release with a usable requires_python, or the callback's version, or
\* already_chosen.
C8_ReturnedIsAdmitted ==
    (SelReturned /\ sel.project.versions # << >>) =>
        /\ Admits(sel.req.specifier, sel.result.version)
        /\ \/ Compatible(sel.project, sel.python_version, sel.result.version)
           \/ sel.result.version = sel.cur
           \/ sel.result.version = sel.already_chosen

\* The selector returned the callback's unpublished version.
C8_Witness ==
    /\ SelReturned
    /\ sel.project.versions # << >>
    /\ sel.result.version = sel.cur
    /\ sel.already_chosen = NoVersion
    /\ sel.cur \notin SeqToSet(sel.project.versions)

\* The candidates that survive the specifier re-filter.
Survivors ==
    SeqToSet(Refilter(sel.req.specifier,
                      Candidates(sel.project, sel.req, sel.python_version,
                                 sel.already_chosen, sel.cur).possible))

SetMin(S) == CHOOSE x \in S : \A y \in S : x <= y
SetMax(S) == CHOOSE x \in S : \A y \in S : y <= x

\* C9: with exactly two surviving candidates v1 < v2 the selector returns v1
\* if already_chosen = v1, else v1 if the callback's version is v1 and
\* already_chosen is neither, else v2.
C9_TieBreak ==
    (sel.stage = "output" /\ Cardinality(Survivors) = 2) =>
        LET v1 == SetMin(Survivors)
            v2 == SetMax(Survivors)
        IN /\ sel.result.ok
           /\ sel.result.version =
                IF sel.already_chosen = v1 THEN v1
                ELSE IF sel.cur = v1 /\ sel.already_chosen \notin {v1, v2} THEN v1
                ELSE v2

\* Two candidates survive, the older is the callback's version, and it wins.
C9_Witness ==
    /\ sel.stage = "output"
    /\ Cardinality(Survivors) = 2
    /\ sel.cur = SetMin(Survivors)
    /\ sel.already_chosen \notin Survivors
    /\ sel.result.version = sel.cur

\* The releases the specifier admits and the interpreter can use, decided
\* without the verdict cache.
CompatibleReleases ==
    {v \in SeqToSet(sel.project.versions) :
        /\ Admits(sel.req.specifier, v)
        /\ RequiresPythonOk(sel.project, sel.python_version, v)}

\* C10: with no current version and no already_chosen the selector returns
\* the greatest release that the specifier admits and whose requires_python
\* is absent, invalid or admits the interpreter.
C10_NewestCompatible ==
    (sel.stage = "output" /\ sel.cur = NoVersion /\ sel.already_chosen = NoVersion
        /\ CompatibleReleases # {}) =>
        /\ sel.result.ok
        /\ sel.result.version = SetMax(CompatibleReleases)

\* The newest admitted release is rejected by a cached verdict and an older
\* one, with an invalid requires_python, is returned.
C10_Witness ==
    /\ sel.stage = "output"
    /\ sel.cur = NoVersion /\ sel.already_chosen = NoVersion
    /\ sel.result.ok
    /\ sel.project.requires_python[sel.result.version] = "zzz"
    /\ \E v, w \in SeqToSet(sel.project.versions) :
          /\ sel.result.version < v /\ v < w
          /\ Admits(sel.req.specifier, v) /\ Admits(sel.req.specifier, w)
          /\ sel.project.requires_python[v] = sel.project.requires_python[w]
          /\ ~RequiresPythonOk(sel.project, sel.python_version, v)

\* The candidates before the specifier re-filter, as a set.
CandidateSet ==
    SeqToSet(Candidates(sel.project, sel.req, sel.python_version,
                        sel.already_chosen, sel.cur).possible)

\* The callback's version is unpublished, or published and usable by the
\* interpreter.
CurAdmissible ==
    \/ sel.cur \notin SeqToSet(sel.project.versions)
    \/ RequiresPythonOk(sel.project, sel.python_version, sel.cur)

\* A candidate current version that the specifier admits is returned when
\* already_chosen is none or not admitted.
CurWins ==
    (/\ sel.cur \in CandidateSet
     /\ Admits(sel.req.specifier, sel.cur)
     /\ \/ sel.already_chosen = NoVersion
        \/ ~Admits(sel.req.specifier, sel.already_chosen))
        => (sel.result.ok /\ sel.result.version = sel.cur)

NamedCandidates ==
    (IF CompatibleReleases = {} THEN {} ELSE {SetMax(CompatibleReleases)})
    \cup (IF sel.cur # NoVersion /\ CurAdmissible THEN {sel.cur} ELSE {})
    \cup (IF sel.already_chosen # NoVersion THEN {sel.already_chosen} ELSE {})

\* C12: the selector raises NoMatchingRelease exactly when the specifier
\* admits none of the named candidates, and otherwise returns one of them
\* that the specifier admits; with no candidate at all the error says
\* whether the specifier admits some release or none.
C12_RaisesIffNoCandidate ==
    sel.stage = "output" =>
        LET admitted == {c \in NamedCandidates : Admits(sel.req.specifier, c)} IN
        /\ sel.result.ok <=> admitted # {}
        /\ sel.result.ok => sel.result.version \in admitted
        /\ NamedCandidates = {} =>
              sel.result.error =
                 IF \E v \in SeqToSet(sel.project.versions) :
                        Admits(sel.req.specifier, v)
                 THEN "no python-compatible release"
                 ELSE "no release matching"

\* The specifier admits two releases, neither usable by the interpreter,
\* there is no other candidate, and the error says so.
C12_Witness ==
    /\ sel.stage = "output"
    /\ NamedCandidates = {}
    /\ ~sel.result.ok
    /\ sel.result.error = "no python-compatible release"
    /\ Cardinality({v \in SeqToSet(sel.project.versions) :
                        Admits(sel.req.specifier, v)}) >= 2


(***************************************************************************)
(* drain run by one thread alone: the reference the claims about the       *)
(* concurrent walker compare it with.                                      *)
(***************************************************************************)
\* The entries drain appends for the matching requirements of a release.
DepEntries(c, key, parent_keys, req, reqs) ==
    LET keep == SelectSeq(reqs, LAMBDA r : DrainMatch(r, req))
    IN [i \in 1..Len(keep) |-> DepEntry(c, key, parent_keys, keep[i])]

\* One iteration of the while loop of drain, every future already done.
DrainIteration(st) ==
    IF st.queue = << >> THEN [st EXCEPT !.result = "returned"]
    ELSE
    LET e == Head(st.queue)
        pick == Selection(e, st.chosen)
        cur == ChosenGet(st.chosen, e.name)
        choice == NewChoice(e, pick.version)
        c == Len(st.nodes) + 1
        md == pypi_simple.metadata[<< e.name, pick.version >>]
        seen == [st EXCEPT !.queue = Tail(@),
                           !.visited = Append(@, [name |-> e.name, req |-> e.req])]
    IN
    IF ~pick.ok THEN [seen EXCEPT !.result = "raised"]
    ELSE IF IsCircular(ChoiceKey(choice), e.parent_keys)
    THEN [seen EXCEPT !.nodes = Append(@, choice)]
    ELSE IF ~Published(pypi_simple.project[e.name], pick.version)
    THEN [seen EXCEPT
            !.nodes = Append(@, choice),
            !.known_conflicts = ConflictsAfter(@, e.name, cur, pick.version),
            !.chosen = (e.name :> pick.version) @@ @]
    ELSE [seen EXCEPT
            !.nodes = Append(@, [choice EXCEPT !.has_sdist = md.has_sdist,
                                               !.has_wheel = md.has_wheel]),
            !.known_conflicts = ConflictsAfter(@, e.name, cur, pick.version),
            !.chosen = (e.name :> pick.version) @@ @,
            !.queue = @ \o DepEntries(c, ChoiceKey(choice), e.parent_keys,
                                      e.req, md.reqs)]

\* The first k iterations of drain from state st.
RECURSIVE DrainIterations(_, _)
DrainIterations(st, k) ==
    IF k = 0 \/ st.result # "running" THEN st
    ELSE CHOOSE r \in {DrainIterations(nx, k - 1) : nx \in {DrainIteration(st)}} : TRUE

\* The state a lone thread is in after as many iterations as the current
\* drain call has made.
SequentialDrain ==
    DrainIterations([queue |-> hist.start.queue, nodes |-> hist.start.nodes,
                     known_conflicts |-> hist.start.known_conflicts,
                     chosen |-> << >>, visited |-> << >>, result |-> "running"],
                    Len(hist.visited))

\* The caller's state is the lone thread's.
MatchesSequentialDrain ==
    \E ref \in {SequentialDrain} :
    /\ queue = ref.queue
    /\ nodes = ref.nodes
    /\ known_conflicts = ref.known_conflicts
    /\ chosen = ref.chosen
    /\ hist.visited = ref.visited
    /\ IF pc = "idle"
       THEN drain_result = (IF ref.result = "raised" THEN "raised" ELSE "returned")
       ELSE ref.result = "running"

\* The keys of the nodes above node i and below the root it hangs from.
RECURSIVE AncestorKeys(_)
AncestorKeys(i) ==
    LET p == nodes[i].parent IN
    IF nodes[i].project = "-" \/ nodes[p].project = "-" THEN {}
    ELSE {ChoiceKey(nodes[p])} \cup AncestorKeys(p)

\* Node i has an outgoing edge, or work that would give it one.
Expanded(i) ==
    \/ \E j \in 1..Len(nodes) : nodes[j].project # "-" /\ nodes[j].parent = i
    \/ \E k \in 1..Len(queue) : queue[k].parent = i
    \/ pc \in {"drain_md_submit", "drain_md_wait", "drain_deps", "drain_dep_locked"}
       /\ frame.choice = i

\* The thread inside drain, and the drain call over.
InDrain == pc \notin {"idle", "feed_locked"}

DrainOver == pc = "idle" /\ drain_result \in {"returned", "raised"}

DrainEnded ==
    /\ pc = "idle"
    /\ \/ drain_result = "returned" /\ queue = << >>
       \/ drain_result = "raised"

\* The future the thread inside drain waits for, if any.
Awaited ==
    IF pc = "drain_loop" /\ queue # << >>
    THEN {ProjectTask(Head(queue).name, memo_fetch[Head(queue).name])}
    ELSE IF pc = "drain_md_wait"
    THEN {MetadataTask(frame.name, frame.version, frame.fut2)}
    ELSE {}

\* The tasks the pool holds or has finished.
Submitted == SeqToSet(pool_q) \cup {w.task : w \in running} \cup done


(***************************************************************************)
(* Claims about the walker (Spec, FairSpec).                               *)
(***************************************************************************)
\* C1: over the lifetime of the walker, across clear() and replayed drains
\* and under every interleaving of feed, drain and the workers' prefetches,
\* _fetch_project is submitted at most once for each project name.
C1_OneProjectFetch ==
    /\ \A n \in Names : fetch_submitted[n] <= 1
    /\ \A n \in Names : memo_fetch[n] = fetch_submitted[n]

\* A worker holds the mutex for a name that another thread has inserted
\* since the worker's unlocked look at memo_fetch.
C1_Witness ==
    \E w \in running :
        /\ w.pc = "md_locked"
        /\ memo_fetch[Reqs(w.task.name, w.task.version)[w.i].name] # 0

\* C2: _fetch_project_metadata is submitted at most once for each release,
\* under every interleaving of the workers' latest-release prefetch with
\* drain's check-then-insert into memo_version_metadata.
C2_OneMetadataFetch ==
    /\ \A t \in PVKeys : metadata_submitted[t] <= 1
    /\ \A t \in PVKeys : memo_version_metadata[t] = metadata_submitted[t]

\* A worker and the thread inside drain have both found their release
\* missing from memo_version_metadata and are about to insert it.
C2_Witness ==
    /\ pc = "drain_md_submit"
    /\ \E w \in running : w.pc = "fp_submit"

\* C3 (as first stated): a drain call never ends otherwise than by
\* returning with an empty queue.
C3_Original == drain_result # "raised"

\* C3: under FairSpec every drain call ends, either returning with an empty
\* queue or raising NoMatchingRelease out of the selection; and the thread
\* inside drain only ever waits for a future whose task the pool holds or
\* has finished.
C3_DrainEnds ==
    /\ [](Awaited \subseteq Submitted)
    /\ (InDrain ~> DrainEnded)

\* A drain call has returned with an empty queue after breaking a cycle.
C3_Witness ==
    /\ pc = "idle"
    /\ drain_result = "returned"
    /\ queue = << >>
    /\ calls.drain = 1
    /\ \E i \in 1..Len(nodes) : ChoiceKey(nodes[i]) \in AncestorKeys(i)

\* C4: a node whose key is the key of one of its ancestors below the root
\* hangs from its parent but has no outgoing edge and no queued or running
\* expansion; every edge leads from an older node to a newer one.
C4_CycleBreak ==
    \A i \in 1..Len(nodes) :
        /\ nodes[i].project # "-" =>
              /\ nodes[i].parent \in 1..(i - 1)
              /\ ChoiceKey(nodes[i]) \in AncestorKeys(i) => ~Expanded(i)

\* A child was attached whose key is an ancestor's, under a parent that is
\* not the root.
C4_Witness ==
    \E i \in 1..Len(nodes) :
        /\ nodes[i].project # "-"
        /\ ChoiceKey(nodes[i]) \in AncestorKeys(i)
        /\ nodes[nodes[i].parent].project # "-"
        /\ pc = "drain_loop"

\* C5 (as first stated): every entry of known_conflicts contains every
\* version recorded for its name since the last clear().
C5_Original ==
    \A n \in DOMAIN known_conflicts : hist.since_clear[n] \subseteq known_conflicts[n]

\* C5: every entry of known_conflicts that the current drain call created
\* contains every version that call has recorded in chosen for its name.
C5_EntryCoversDrain ==
    \A n \in DOMAIN known_conflicts \ hist.had_entry :
        hist.recorded[n] \subseteq known_conflicts[n]

\* The current drain call has created an entry that holds the two versions
\* it recorded for the name.
C5_Witness ==
    /\ InDrain
    /\ \E n \in DOMAIN known_conflicts \ hist.had_entry :
          /\ Cardinality(hist.recorded[n]) >= 2
          /\ hist.recorded[n] = known_conflicts[n]

\* C6: whenever the thread inside drain is between two iterations, or the
\* call has ended and the client has called nothing since, the entries
\* visited, the queue, the graph, chosen and known_conflicts are those of a
\* lone thread running drain from the same state, whatever the workers did
\* and however many there are.
C6_Deterministic ==
    (pc = "drain_loop" \/ (DrainOver /\ calls = hist.start.calls))
        => MatchesSequentialDrain

\* Two workers are running while the thread inside drain, between two
\* iterations, has visited two entries and has more queued.
C6_Witness ==
    /\ pc = "drain_loop"
    /\ Len(hist.visited) >= 2
    /\ Cardinality(running) = 2
    /\ Len(queue) >= 1
    /\ MatchesSequentialDrain

C13_RaiseAborts ==
    [][/\ (/\ pc = "drain_loop"
           /\ queue # << >>
           /\ hist'.visited # hist.visited
           /\ ~Selection(Head(queue), chosen).ok)
          => /\ nodes' = nodes
             /\ chosen' = chosen
             /\ known_conflicts' = known_conflicts
             /\ pc' = "idle"
             /\ drain_result' = "raised"
       /\ (drain_result = "raised" /\ calls'.drain = calls.drain)
          => /\ hist'.visited = hist.visited
             /\ pc' \in {"idle", "feed_locked"}]_vars

\* A drain call has raised after attaching two nodes, with an entry still
\* in the queue.
C13_Witness ==
    /\ pc = "idle"
    /\ drain_result = "raised"
    /\ Len(hist.visited) >= 3
    /\ queue # << >>
    /\ calls.drain = 1

\* The tasks that have run or are running, by kind.
Performed(kind) == {t \in done \cup {w.task : w \in running} : t.kind = kind}

\* The project names that appear as a Choice in the graph.
Reached == {nodes[i].project : i \in 1..Len(nodes)} \ {"-"}

\* Every call has ended and the pool has nothing left to do.
Quiescent ==
    /\ pc = "idle"
    /\ queue = << >>
    /\ pool_q = << >>
    /\ running = {}

\* C14 (as first stated): when a walk has returned and the pool is idle,
\* as many pages were fetched as names were reached, and as many metadata
\* fetches were made as releases had their metadata read by drain.
C14_Original ==
    (Quiescent /\ drain_result = "returned") =>
        /\ Cardinality(Performed("project")) = Cardinality(Reached)
        /\ Cardinality(Performed("metadata")) = Cardinality(hist.consulted)

\* C14: every name reached was fetched by exactly one task, which is done,
\* and every release whose metadata drain read was fetched by exactly one
\* task, which is done; no name and no release is fetched twice, so the
\* fetches are at least as many as the names reached and the releases
\* read (prefetches may add to them).
C14_FetchedOnce ==
    /\ \A n \in Reached :
          fetch_submitted[n] = 1 /\ ProjectTask(n, 1) \in done
    /\ \A t \in hist.consulted :
          metadata_submitted[t] = 1 /\ MetadataTask(t[1], t[2], 1) \in done
    /\ \A t \in Performed("project") : t.n = 1
    /\ \A t \in Performed("metadata") : t.n = 1
    /\ Cardinality(Performed("project")) >= Cardinality(Reached)
    /\ Cardinality(Performed("metadata")) >= Cardinality(hist.consulted)

\* A walk has returned, the pool is idle, two names were reached and
\* fetched, and a release was fetched whose metadata drain never read.
C14_Witness ==
    /\ Quiescent
    /\ drain_result = "returned"
    /\ Cardinality(Reached) = 2
    /\ Cardinality(Performed("project")) = 2
    /\ Cardinality(Performed("metadata")) > Cardinality(hist.consulted)

\* C15: the step of clear() makes root a fresh sentinel without edges and
\* empties known_conflicts; it leaves the memo maps, the queue and the
\* pool's tasks as they are; and no step submits a fetch for a name or a
\* release that the memo maps already hold, so a replay fetches nothing
\* again.
C15_ClearKeepsMemo ==
    [][/\ calls'.clear # calls.clear =>
             /\ root' # root
             /\ nodes'[root'] = RootChoice
             /\ \A i \in 1..Len(nodes') : nodes'[i].parent # root'
             /\ known_conflicts' = << >>
             /\ memo_fetch' = memo_fetch
             /\ memo_version_metadata' = memo_version_metadata
             /\ queue' = queue
             /\ << pool_q', running', done' >> = << pool_q, running, done >>
       /\ \A n \in Names :
             memo_fetch[n] # 0 => fetch_submitted'[n] = fetch_submitted[n]
       /\ \A t \in PVKeys :
             memo_version_metadata[t] # 0 =>
                metadata_submitted'[t] = metadata_submitted[t]]_vars

\* After clear() a second drain has attached, under the new root, a node
\* for a project that the first walk reached, and its one fetch is all
\* there has been.
C15_Witness ==
    /\ calls.clear = 1
    /\ hist.start.calls.clear = 1
    /\ \E i, j \in 1..Len(nodes) :
          /\ j < root /\ root < i
          /\ nodes[i].parent = root
          /\ nodes[j].project = nodes[i].project
          /\ fetch_submitted[nodes[i].project] = 1

\* C16 (as first stated): after clear() the conflict table and both memo
\* maps are empty.
C16_Original ==
    [][calls'.clear # calls.clear =>
          /\ DOMAIN known_conflicts' = {}
          /\ \A n \in Names : memo_fetch'[n] = 0
          /\ \A t \in PVKeys : memo_version_metadata'[t] = 0]_vars

\* C16: after clear() the conflict table is empty, and every future that
\* memo_fetch and memo_version_metadata held before the call is still
\* there.
C16_ClearEmptiesConflicts ==
    [][calls'.clear # calls.clear =>
          /\ DOMAIN known_conflicts' = {}
          /\ \A n \in Names : memo_fetch[n] # 0 => memo_fetch'[n] = memo_fetch[n]
          /\ \A t \in PVKeys :
                memo_version_metadata[t] # 0 =>
                   memo_version_metadata'[t] = memo_version_metadata[t]]_vars

\* clear() was called after a drain that had recorded a conflict: the
\* table is empty, the memo maps are not.
C16_Witness ==
    /\ calls.clear = 1 /\ calls.drain = 1
    /\ pc = "idle"
    /\ \E n \in Names : Cardinality(hist.recorded[n]) >= 2
    /\ known_conflicts = << >>
    /\ \E n \in Names : memo_fetch[n] # 0
    /\ \E t \in PVKeys : memo_version_metadata[t] # 0

(***************************************************************************)
(* cli.py: main.  The walks of main are made by one thread that waits for  *)
(* every fetch, so each drain call is taken as the sequential drain.       *)
(***************************************************************************)

\* The longest command line of the model.
MaxDeps == 3

\* Requirement(f"{project}=={version}")
Pin(project, version) == Req(project, [op |-> "==", v |-> version], "")

\* The requirements of a command line.
MainReqs ==
    {Req(n, AnySpec, "") : n \in Names} \cup {Pin(n, 1) : n \in Names}
        \cup {Pin("a", MaxVer)}

MainDeps == UNION {[1..n -> MainReqs] : n \in 0..MaxDeps}

\* The index contents main runs against: those of the walker model, and
\*  - "a": exactly the oldest release of "b" for release 1, any for the rest;
\*  - "a": any release of "b";
\*  - "a": a release of "b" newer than the oldest for release 1, exactly
\*    the oldest for the rest;
\*  - "b": nothing for release 1, exactly the oldest release of "a" for the rest;
\*  - "b": a release of "a" newer than the oldest, then exactly its newest.
MainPatternsA ==
    ReqPatternsA \cup
    {[v \in Versions |->
        << Req("b", IF v = 1 THEN [op |-> "==", v |-> 1] ELSE AnySpec, "") >>],
     [v \in Versions |-> << Req("b", AnySpec, "") >>],
     [v \in Versions |->
        << IF v = 1 THEN Req("b", [op |-> ">", v |-> 1], "") ELSE Pin("b", 1) >>]}

MainPatternsB ==
    ReqPatternsB \cup
    {[v \in Versions |-> IF v = 1 THEN << >> ELSE << Pin("a", 1) >>],
     [v \in Versions |-> << Req("a", [op |-> ">", v |-> 1], ""), Pin("a", MaxVer) >>]}

MainUniverses ==
    {[project |-> [n \in Names |-> ProjectPage(n, AllVersions)],
      metadata |-> [k \in PVKeys |->
                      [reqs |-> IF k[1] = "a" THEN pa[k[2]] ELSE pb[k[2]],
                       has_sdist |-> TRUE, has_wheel |-> TRUE]]] :
        pa \in MainPatternsA, pb \in MainPatternsB}

\* main(deps, install_order, have, ...) up to the construction of the walker.
MainInit ==
    /\ pypi_simple \in MainUniverses
    /\ current_version_callback \in Callbacks
    /\ parallelism = 1
    /\ WalkerInit
    /\ sel = NoSel
    /\ cache = CacheUnused
    /\ call = NoCall
    /\ \E deps \in MainDeps, install_order \in BOOLEAN :
          cli = [pc |-> "solve", deps |-> deps, install_order |-> install_order,
                 out |-> << >>, order |-> << >>, snapshot |-> << >>,
                 project |-> 0, tried |-> {}, attempts |-> << >>,
                 resolutions |-> << >>, summary |-> "none", unresolved |-> {}]

\* The walker's variables main never reaches but through feed and drain.
mainUnused == << memo_fetch, memo_version_metadata, memo_fetch_lock, pc, frame,
                 calls, hist, pool_q, running, done, fetch_submitted,
                 metadata_submitted, pypi_simple, current_version_callback,
                 parallelism, sel, cache, call >>

\* A plausible slip: the pin is fed after the original requirements.
PinFedLast(pin, deps) == deps \o pin

\* "walker.feed(req); solve()": the pin, then every original requirement.
ReplayReqs(pin, deps) == pin \o deps

\* The queue after walker.feed of each of reqs in turn, the root being r.
FeedAll(q, r, reqs) ==
    LET keep == SelectSeq(reqs, LAMBDA req : req.marker = "" \/ EnvMatch(req.marker))
    IN q \o [i \in 1..Len(keep) |-> [FeedEntry(keep[i]) EXCEPT !.parent = r]]

\* The name an iteration of drain adds to the keys of known_conflicts.
NewConflict(before, after) ==
    LET new == DOMAIN after.known_conflicts \ DOMAIN before.known_conflicts
    IN IF new = {} THEN << >> ELSE << CHOOSE n \in new : TRUE >>

\* drain() to its end from state st; order lists the keys of
\* known_conflicts as the dict holds them: by insertion.
RECURSIVE DrainToEnd(_, _)
DrainToEnd(st, order) ==
    IF st.result # "running" THEN [st |-> st, order |-> order]
    ELSE CHOOSE r \in {DrainToEnd(nx, order \o NewConflict(st, nx)) :
                          nx \in {DrainIteration(st)}} : TRUE

\* solve() with reqs to feed, the walker's root, queue, nodes and table given.
Solve(reqs, r, q, ns, kc) ==
    DrainToEnd([queue |-> FeedAll(q, r, reqs), nodes |-> ns, known_conflicts |-> kc,
                chosen |-> << >>, visited |-> << >>, result |-> "running"], << >>)

\* The first solve() of main.
MainSolve ==
    /\ cli.pc = "solve"
    /\ \E w \in {Solve(cli.deps, root, queue, nodes, known_conflicts)} :
          /\ queue' = w.st.queue
          /\ nodes' = w.st.nodes
          /\ known_conflicts' = w.st.known_conflicts
          /\ chosen' = w.st.chosen
          /\ drain_result' = w.st.result
          /\ cli' = [cli EXCEPT !.order = w.order,
                                !.pc = IF w.st.result = "raised" THEN "raised"
                                       ELSE "print"]
    /\ UNCHANGED root
    /\ UNCHANGED mainUnused

\* choice.deps of node i: the nodes its edges reach, in the order appended.
RECURSIVE DepsFrom(_, _)
DepsFrom(i, j) ==
    IF j > Len(nodes) THEN << >>
    ELSE (IF nodes[j].project # "-" /\ nodes[j].parent = i THEN << j >> ELSE << >>)
             \o DepsFrom(i, j + 1)

Deps(i) == DepsFrom(i, 1)

\* A plausible slip: a line for every visit.
FlatPrintedAlways(flag) == TRUE

\* "if not flag"
FlatPrinted(flag) == ~flag

\* A plausible slip: the line of a node before the lines below it.
FlatPreorder(below, line) == line \o below

\* The lines of one turn of the loop: the recursive call's, then the node's.
FlatPostorder(below, line) == below \o line

\* The loop of print_flat(choice, seen) over deps from its k-th element on.
\* acc.seen is the set seen, acc.out the lines printed so far; a line is
\* the key printed and the node whose turn printed it.
RECURSIVE PrintFlatLoop(_, _, _)
PrintFlatLoop(deps, k, acc) ==
    IF k > Len(deps) THEN acc
    ELSE
    LET x == deps[k]
        key == ChoiceKey(nodes[x])
        flag == key \in acc.seen
        marked == [seen |-> acc.seen \cup {key}, out |-> << >>]
        below == IF Deps(x) # << >> THEN PrintFlatLoop(Deps(x), 1, marked) ELSE marked
        line == IF FlatPrinted(flag) THEN << [key |-> key, node |-> x] >> ELSE << >>
    IN PrintFlatLoop(deps, k + 1,
                     [seen |-> below.seen,
                      out |-> acc.out \o FlatPostorder(below.out, line)])

\* walker.print_flat(): what it prints.
print_flat == PrintFlatLoop(Deps(root), 1, [seen |-> {}, out |-> << >>]).out

\* The colour of a line of print_tree for a key already seen.
SeenColor(x) ==
    IF nodes[x].project \in DOMAIN known_conflicts /\ nodes[x].specifier # AnySpec
    THEN "conflict" ELSE "none"

\* A plausible slip: the sdist test before the test of the current version.
FreshColorSdistFirst(x) ==
    IF nodes[x].project \in DOMAIN known_conflicts THEN "conflict"
    ELSE IF ~nodes[x].has_sdist THEN "no_sdist"
    ELSE IF current_version_callback[nodes[x].project] # NoVersion
            /\ current_version_callback[nodes[x].project] = nodes[x].version
    THEN "have_reuse"
    ELSE "good"

\* The colour of a line of print_tree for a key not seen yet.
FreshColor(x) ==
    IF nodes[x].project \in DOMAIN known_conflicts THEN "conflict"
    ELSE IF current_version_callback[nodes[x].project] # NoVersion
            /\ current_version_callback[nodes[x].project] = nodes[x].version
    THEN "have_reuse"
    ELSE IF ~nodes[x].has_sdist THEN "no_sdist" ELSE "good"

\* The loop of print_tree(choice, seen, known_conflicts, depth) over deps
\* from its k-th element on.
RECURSIVE PrintTreeLoop(_, _, _, _)
PrintTreeLoop(deps, k, depth, acc) ==
    IF k > Len(deps) THEN acc
    ELSE
    LET x == deps[k]
        key == ChoiceKey(nodes[x])
        listed == [acc EXCEPT !.out = Append(@,
                      [key |-> key, node |-> x, depth |-> depth,
                       already_listed |-> TRUE, color |-> SeenColor(x),
                       no_whl |-> FALSE])]
        fresh == [seen |-> acc.seen \cup {key},
                  out |-> Append(acc.out,
                      [key |-> key, node |-> x, depth |-> depth,
                       already_listed |-> FALSE, color |-> FreshColor(x),
                       no_whl |-> ~nodes[x].has_wheel])]
        after == IF key \in acc.seen THEN listed
                 ELSE IF Deps(x) # << >> THEN PrintTreeLoop(Deps(x), 1, depth + 1, fresh)
                 ELSE fresh
    IN PrintTreeLoop(deps, k + 1, depth, after)

\* walker.print_tree(): what it prints.
print_tree == PrintTreeLoop(Deps(root), 1, 0, [seen |-> {}, out |-> << >>]).out

\* "if install_order: walker.print_flat() else: walker.print_tree()"
MainPrint ==
    /\ cli.pc = "print"
    /\ cli' = [cli EXCEPT !.out = IF cli.install_order THEN print_flat ELSE print_tree,
                          !.pc = "summary"]
    /\ UNCHANGED << root, nodes, queue, known_conflicts, chosen, drain_result >>
    /\ UNCHANGED mainUnused

\* "if walker.known_conflicts: ... else: No conflicts found."  The loop
\* below runs over a copy of the dict taken here.
MainSummary ==
    /\ cli.pc = "summary"
    /\ IF known_conflicts = << >>
       THEN cli' = [cli EXCEPT !.summary = "No conflicts found.", !.pc = "done"]
       ELSE cli' = [cli EXCEPT
                      !.snapshot = [i \in 1..Len(cli.order) |->
                                      [project |-> cli.order[i],
                                       versions |-> known_conflicts[cli.order[i]]]],
                      !.project = 1,
                      !.pc = "pin"]
    /\ UNCHANGED << root, nodes, queue, known_conflicts, chosen, drain_result >>
    /\ UNCHANGED mainUnused

\* One turn of "for version in versions" for the project the outer loop is
\* at: clear, feed of the pin, solve, and the test that follows.  A set
\* is iterated in an order the program does not fix.
MainPinAttempt(version) ==
    /\ cli.pc = "pin"
    /\ version \in cli.snapshot[cli.project].versions \ cli.tried
    /\ LET project == cli.snapshot[cli.project].project
           req == Pin(project, version)
           r == Len(nodes) + 1
           ns == Append(nodes, RootChoice)
           reqs == ReplayReqs(<< req >>, cli.deps)
           start == FeedAll(queue, r, reqs)
       IN \E w \in {Solve(reqs, r, queue, ns, ConflictsAfterClear)} :
          LET raised == w.st.result = "raised"
              resolved == ~raised /\ project \notin DOMAIN w.st.known_conflicts
              tried == cli.tried \cup {version}
              exhausted == tried = cli.snapshot[cli.project].versions
              next == IF raised THEN cli.project
                      ELSE IF resolved THEN cli.project + 1
                      ELSE IF exhausted THEN cli.project + 1
                      ELSE cli.project
          IN
          /\ root' = r
          /\ queue' = w.st.queue
          /\ nodes' = w.st.nodes
          /\ known_conflicts' = w.st.known_conflicts
          /\ chosen' = w.st.chosen
          /\ drain_result' = w.st.result
          /\ cli' = [cli EXCEPT
                       !.attempts = Append(@,
                           [project |-> project, version |-> version,
                            queue |-> start, cleared |-> ConflictsAfterClear,
                            raised |-> raised,
                            conflicts |-> DOMAIN w.st.known_conflicts]),
                       !.resolutions = IF resolved THEN Append(@, req) ELSE @,
                       !.order = w.order,
                       !.tried = IF next = cli.project THEN tried ELSE {},
                       !.project = next,
                       !.pc = IF raised THEN "raised"
                              ELSE IF next > Len(cli.snapshot) THEN "report"
                              ELSE "pin"]
    /\ UNCHANGED mainUnused

\* The report: the pins, then "unresolved = walker.known_conflicts.keys() -
\* {x.name for x in resolutions}".
MainReport ==
    /\ cli.pc = "report"
    /\ cli' = [cli EXCEPT
                 !.unresolved = DOMAIN known_conflicts
                                  \ {cli.resolutions[i].name : i \in DOMAIN cli.resolutions},
                 !.pc = "done"]
    /\ UNCHANGED << root, nodes, queue, known_conflicts, chosen, drain_result >>
    /\ UNCHANGED mainUnused

MainNext ==
    \/ MainSolve
    \/ MainPrint
    \/ MainSummary
    \/ \E version \in 1..(MaxVer + 1) : MainPinAttempt(version)
    \/ MainReport

MainSpec == MainInit /\ [][MainNext]_vars

(***************************************************************************)
(* Properties of main                                                      *)
(***************************************************************************)

\* The replay of attempt i left its project out of known_conflicts.
Resolving(i) ==
    /\ ~cli.attempts[i].raised
    /\ cli.attempts[i].project \notin cli.attempts[i].conflicts

\* The outer loop is past the s-th project of the snapshot.
ProjectOver(s) ==
    \/ cli.pc \in {"report", "done"}
    \/ cli.pc = "pin" /\ s < cli.project

\* C17: every replay of the conflict driver tries a version of the conflict
\* set of a project of the snapshot, no version twice; it starts from an
\* empty conflict table and a fresh root, with the pin name==version fed
\* first and the original requirements after it in their order; the pin is
\* recorded as a resolution exactly when its replay leaves the project out
\* of known_conflicts, and then no further version of the project is tried;
\* a project the loop is past has a resolving pin or had every version of
\* its set tried.
C17_ReplayProtocol ==
    cli.pc \in {"pin", "report", "done", "raised"} /\ cli.snapshot # << >> =>
    LET A == cli.attempts
        R == {cli.resolutions[k] : k \in DOMAIN cli.resolutions}
    IN
    /\ \A i \in DOMAIN A :
          /\ \E s \in DOMAIN cli.snapshot :
                /\ cli.snapshot[s].project = A[i].project
                /\ A[i].version \in cli.snapshot[s].versions
          /\ \A j \in DOMAIN A :
                j # i => << A[j].project, A[j].version >> # << A[i].project, A[i].version >>
          /\ A[i].cleared = << >>
          /\ Len(A[i].queue) = 1 + Len(cli.deps)
          /\ A[i].queue[1].req = Pin(A[i].project, A[i].version)
          /\ \A k \in DOMAIN cli.deps : A[i].queue[k + 1].req = cli.deps[k]
          /\ \A k \in DOMAIN A[i].queue :
                /\ nodes[A[i].queue[k].parent] = RootChoice
                /\ \A j \in DOMAIN A : j # i => A[j].queue[1].parent # A[i].queue[k].parent
          /\ Resolving(i) <=> Pin(A[i].project, A[i].version) \in R
          /\ Resolving(i) => \A j \in DOMAIN A : j > i => A[j].project # A[i].project
    /\ \A r \in R : \E i \in DOMAIN A : Resolving(i) /\ r = Pin(A[i].project, A[i].version)
    /\ Len(cli.resolutions) = Cardinality(R)
    /\ \A s \in DOMAIN cli.snapshot :
          ProjectOver(s) =>
             \/ \E i \in DOMAIN A : A[i].project = cli.snapshot[s].project /\ Resolving(i)
             \/ cli.snapshot[s].versions =
                   {A[i].version : i \in {j \in DOMAIN A :
                                             A[j].project = cli.snapshot[s].project}}

\* The driver has finished; one project took a second pin to resolve and
\* another has no resolving pin.
C17_Witness ==
    /\ cli.pc = "done"
    /\ \E i, j \in DOMAIN cli.attempts :
          /\ i < j
          /\ cli.attempts[i].project = cli.attempts[j].project
          /\ ~Resolving(i)
          /\ Resolving(j)
    /\ \E s \in DOMAIN cli.snapshot :
          \A i \in DOMAIN cli.attempts :
             cli.attempts[i].project = cli.snapshot[s].project => ~Resolving(i)

\* The projects of the snapshot, and those reported with a pin.
SnapshotProjects == {cli.snapshot[s].project : s \in DOMAIN cli.snapshot}

Pinned == {cli.resolutions[k].name : k \in DOMAIN cli.resolutions}

\* C18: when the conflict driver has finished, every project of the
\* snapshot is reported with a resolving pin or as unresolved, and every
\* project reported as unresolved is a project of the snapshot.
C18_ReportComplete ==
    cli.pc = "done" /\ cli.snapshot # << >> =>
        /\ SnapshotProjects \subseteq Pinned \cup cli.unresolved
        /\ cli.unresolved \subseteq SnapshotProjects

\* The root node i hangs from.
RECURSIVE RootOf(_)
RootOf(i) == IF nodes[i].project = "-" THEN i ELSE RootOf(nodes[i].parent)

\* The graph of the last walk: the nodes below self.root.
GraphNodes ==
    {i \in 1..Len(nodes) : nodes[i].project # "-" /\ RootOf(i) = root}

GraphKeys == {ChoiceKey(nodes[i]) : i \in GraphNodes}

\* The nodes from the root's dep down to node i.
RECURSIVE PathTo(_)
PathTo(i) ==
    IF nodes[i].project = "-" THEN << >> ELSE Append(PathTo(nodes[i].parent), i)

\* A depth-first traversal that follows deps in order reaches node x
\* before node y.
ReachedBefore(x, y) ==
    LET px == PathTo(x)
        py == PathTo(y)
    IN \/ Len(px) < Len(py) /\ SubSeq(py, 1, Len(px)) = px
       \/ \E k \in 1..Len(px) :
             /\ k <= Len(py)
             /\ SubSeq(px, 1, k - 1) = SubSeq(py, 1, k - 1)
             /\ px[k] < py[k]

\* The node at which a traversal first visits the triple key.
FirstVisit(key) ==
    CHOOSE x \in GraphNodes :
        /\ ChoiceKey(nodes[x]) = key
        /\ \A y \in GraphNodes :
              y # x /\ ChoiceKey(nodes[y]) = key => ReachedBefore(x, y)

\* print_flat has just printed the graph of the first walk.
FlatPrintedNow == cli.pc = "summary" /\ cli.install_order

\* The lines of the output that show the triple key.
LinesOf(key) == {i \in DOMAIN cli.out : cli.out[i].key = key}

\* C19: print_flat prints exactly one line for each triple of the graph,
\* in the turn of the first node visited with that triple, and no line
\* for anything else.
C19_FlatOnce ==
    FlatPrintedNow =>
        /\ \A key \in GraphKeys :
              /\ Cardinality(LinesOf(key)) = 1
              /\ \A i \in LinesOf(key) : cli.out[i].node = FirstVisit(key)
        /\ \A i \in DOMAIN cli.out : cli.out[i].key \in GraphKeys

\* A graph in which one triple sits at two nodes, printed.
C19_Witness ==
    /\ FlatPrintedNow
    /\ \E x, y \in GraphNodes : x # y /\ ChoiceKey(nodes[x]) = ChoiceKey(nodes[y])
    /\ Len(cli.out) > 1

\* The edges of the graph that close no cycle: parent and child.
TreeEdges ==
    {<< nodes[j].parent, j >> : j \in {i \in GraphNodes :
        /\ nodes[i].parent \in GraphNodes
        /\ ChoiceKey(nodes[i]) \notin AncestorKeys(i)}}

\* The line of the child's triple comes before the line of the parent's.
ChildLineFirst(e) ==
    \A i \in LinesOf(ChoiceKey(nodes[e[2]])), k \in LinesOf(ChoiceKey(nodes[e[1]])) : i < k

\* C20 as stated: for every edge that closes no cycle the child's line
\* comes before the parent's.
C20_Original ==
    FlatPrintedNow => \A e \in TreeEdges : ChildLineFirst(e)

\* C20: for every edge that closes no cycle and whose parent is the first
\* node visited with its triple, the line of the child's triple comes
\* before the line of the parent's triple.
C20_PostOrder ==
    FlatPrintedNow =>
        \A e \in TreeEdges :
            e[1] = FirstVisit(ChoiceKey(nodes[e[1]])) => ChildLineFirst(e)

\* A printed graph with an edge below a first-visited parent, and an edge
\* that closes a cycle.
C20_Witness ==
    /\ FlatPrintedNow
    /\ \E e \in TreeEdges : e[1] = FirstVisit(ChoiceKey(nodes[e[1]]))
    /\ \E i \in GraphNodes : ChoiceKey(nodes[i]) \in AncestorKeys(i)

\* print_tree has just printed the graph of the first walk.
TreePrintedNow == cli.pc = "summary" /\ ~cli.install_order

\* The turn of line i went on into the deps of its node: each of them has
\* a line of its own, one level deeper and further down.
Descended(i) ==
    \A j \in GraphNodes :
        nodes[j].parent = cli.out[i].node =>
            \E k \in DOMAIN cli.out :
                /\ k > i
                /\ cli.out[k].node = j
                /\ cli.out[k].depth = cli.out[i].depth + 1

\* No dep of the node of line i has a line.
NotDescended(i) ==
    \A k \in DOMAIN cli.out : nodes[cli.out[k].node].parent # cli.out[i].node

\* C21: print_tree prints at least one line for every triple of the graph;
\* the first line of a triple is a plain listing whose turn goes on into
\* the deps of its node; every later line of the triple is marked
\* "(already listed)" and its turn goes no further.
C21_TreeListsAll ==
    TreePrintedNow =>
        /\ \A key \in GraphKeys : LinesOf(key) # {}
        /\ \A i \in DOMAIN cli.out :
              IF \A k \in LinesOf(cli.out[i].key) : i <= k
              THEN ~cli.out[i].already_listed /\ Descended(i)
              ELSE cli.out[i].already_listed /\ NotDescended(i)

\* The colour the rules after the conflict rule give the node of line i.
ColorBelowConflict(i) ==
    LET n == nodes[cli.out[i].node] IN
    IF current_version_callback[n.project] # NoVersion
       /\ current_version_callback[n.project] = n.version
    THEN "have_reuse"
    ELSE IF ~n.has_sdist THEN "no_sdist" ELSE "good"

\* The lines of print_tree that list a triple for the first time.
FirstListed == {i \in DOMAIN cli.out : ~cli.out[i].already_listed}

\* C22 as stated: a first listing is tagged conflict when the name is in
\* known_conflicts and the edge has a specifier, and by the later rules
\* otherwise.
C22_Original ==
    TreePrintedNow =>
        \A i \in FirstListed :
            cli.out[i].color =
                IF nodes[cli.out[i].node].project \in DOMAIN known_conflicts
                   /\ nodes[cli.out[i].node].specifier # AnySpec
                THEN "conflict" ELSE ColorBelowConflict(i)

\* C22: a first listing is tagged conflict when the name is in
\* known_conflicts, whatever the specifier of the edge; otherwise
\* have_reuse when the callback's current version is the chosen one,
\* otherwise no_sdist when has_sdist is false, otherwise good.
C22_FirstListedColor ==
    TreePrintedNow =>
        \A i \in FirstListed :
            cli.out[i].color =
                IF nodes[cli.out[i].node].project \in DOMAIN known_conflicts
                THEN "conflict" ELSE ColorBelowConflict(i)

\* A printed tree with a first listing tagged conflict on an edge without
\* specifier and a first listing tagged have_reuse.
C22_Witness ==
    /\ TreePrintedNow
    /\ \E i \in FirstListed :
          /\ cli.out[i].color = "conflict"
          /\ nodes[cli.out[i].node].specifier = AnySpec
    /\ \E i \in FirstListed : cli.out[i].color = "have_reuse"

(***************************************************************************)
(* cache.py: SimpleCache on a directory that several threads or processes  *)
(* use at once.  A file is an inode; a directory entry names an inode, and *)
(* an open file keeps its inode whatever the entry names later.            *)
(***************************************************************************)

\* Bounds of the cache model: the threads, the calls they make in all, and
\* the digests the keys can have.
MaxClients == 2
MaxCacheOps == 3
MaxDigest == 2

Keys == {"foo", "bar"}

\* Values as the chunks a write call puts out one by one.
Values == {<< >>, << 1, 1 >>, << 2, 2 >>}

Digests == 0..MaxDigest

\* h[:5], the directories of a digest's path.
Prefix(h) == h \div 2

Absent == [present |-> FALSE, bytes |-> << >>]
Present(bytes) == [present |-> TRUE, bytes |-> bytes]

IdleClient == [pc |-> "idle", op |-> "none", key |-> "", value |-> << >>,
               inode |-> 0, result |-> Absent]

\* A plausible slip: the path ends at the directories, without the digest.
local_path_of_prefix(key) == Prefix(cache.sha1[key])

\* _local_path(key): the digest stands for cache_path / h[0] / ... / h[4] / h.
local_path(key) == cache.sha1[key]

\* Every variable but cache.
notCache == << pypi_simple, current_version_callback, parallelism, root, nodes,
               memo_fetch, memo_version_metadata, memo_fetch_lock, queue,
               known_conflicts, chosen, pc, frame, pool_q, running, done,
               fetch_submitted, metadata_submitted, calls, drain_result, hist,
               sel, cli, call >>

\* SimpleCache(cache_path) on an empty directory; sha1 is one function from
\* keys to digests, and there are fewer digests than keys can demand.
CacheInit ==
    /\ pypi_simple = CHOOSE u \in Universes : TRUE
    /\ current_version_callback = [n \in Names |-> NoVersion]
    /\ parallelism = 1
    /\ WalkerInit
    /\ sel = NoSel
    /\ cli = NoMain
    /\ call = NoCall
    /\ \E h \in [Keys -> Digests], n \in 1..MaxClients :
          cache = [sha1 |-> h, clients |-> n, dirs |-> {},
                   entry |-> [d \in Digests |-> 0], data |-> << >>,
                   stats |-> [hits |-> 0, pass |-> 0, sets |-> 0],
                   client |-> [c \in 1..n |-> IdleClient],
                   ops |-> 0, started |-> {}, finished |-> << >>, got |-> << >>]

\* Client c calls get(key).
CacheGetCall(c, key) ==
    /\ cache.client[c].pc = "idle"
    /\ cache.ops < MaxCacheOps
    /\ cache' = [cache EXCEPT
                   !.client[c] = [IdleClient EXCEPT !.pc = "get_open", !.op = "get",
                                                    !.key = key],
                   !.ops = @ + 1,
                   !.started = @ \cup {[op |-> "get", key |-> key, value |-> << >>]}]
    /\ UNCHANGED notCache

\* read_bytes opens the path: OSError when nothing is there.
CacheGetOpen(c) ==
    /\ cache.client[c].pc = "get_open"
    /\ LET p == local_path(cache.client[c].key) IN
       IF cache.entry[p] = 0
       THEN cache' = [cache EXCEPT
                        !.stats.pass = @ + 1,
                        !.client[c] = IdleClient,
                        !.got = Append(@, [key |-> cache.client[c].key,
                                           result |-> Absent,
                                           started |-> cache.started,
                                           finished |-> cache.finished])]
       ELSE cache' = [cache EXCEPT !.client[c].pc = "get_read",
                                   !.client[c].inode = cache.entry[p]]
    /\ UNCHANGED notCache

\* read_bytes reads the open file; the hit is counted and get returns.
CacheGetRead(c) ==
    /\ cache.client[c].pc = "get_read"
    /\ cache' = [cache EXCEPT
                   !.stats.hits = @ + 1,
                   !.client[c] = IdleClient,
                   !.got = Append(@, [key |-> cache.client[c].key,
                                      result |-> Present(cache.data[cache.client[c].inode]),
                                      started |-> cache.started,
                                      finished |-> cache.finished])]
    /\ UNCHANGED notCache

\* Client c calls set(key, value).
CacheSetCall(c, key, value) ==
    /\ cache.client[c].pc = "idle"
    /\ cache.ops < MaxCacheOps
    /\ cache' = [cache EXCEPT
                   !.client[c] = [IdleClient EXCEPT !.pc = "set_mkdir", !.op = "set",
                                                    !.key = key, !.value = value],
                   !.ops = @ + 1,
                   !.started = @ \cup {[op |-> "set", key |-> key, value |-> value]}]
    /\ UNCHANGED notCache

\* p.parent.mkdir(parents=True, exist_ok=True)
CacheSetMkdir(c) ==
    /\ cache.client[c].pc = "set_mkdir"
    /\ cache' = [cache EXCEPT
                   !.dirs = @ \cup {Prefix(local_path(cache.client[c].key))},
                   !.client[c].pc = "set_mkstemp"]
    /\ UNCHANGED notCache

\* A plausible slip: the file is opened for writing at its final path.
EntryAtCreateTarget(entry, p, inode) == [entry EXCEPT ![p] = inode]

\* mkstemp makes a file under a name no other file has: no entry of a key
\* names it.
EntryAtCreate(entry, p, inode) == entry

\* mkstemp(f".{os.getpid()}", prefix=p.name, dir=p.parent)
CacheSetMkstemp(c) ==
    /\ cache.client[c].pc = "set_mkstemp"
    /\ LET inode == Len(cache.data) + 1 IN
       cache' = [cache EXCEPT
                   !.data = Append(@, << >>),
                   !.entry = EntryAtCreate(@, local_path(cache.client[c].key), inode),
                   !.client[c].inode = inode,
                   !.client[c].pc = "set_write"]
    /\ UNCHANGED notCache

\* f.write(value), a chunk at a time, to the close of the file.
CacheSetWrite(c) ==
    /\ cache.client[c].pc = "set_write"
    /\ LET me == cache.client[c]
           n == Len(cache.data[me.inode])
       IN IF n < Len(me.value)
          THEN cache' = [cache EXCEPT !.data[me.inode] = Append(@, me.value[n + 1])]
          ELSE cache' = [cache EXCEPT !.client[c].pc = "set_replace"]
    /\ UNCHANGED notCache

\* os.replace(temp_name, p), the count, and the return of set.
CacheSetReplace(c) ==
    /\ cache.client[c].pc = "set_replace"
    /\ cache' = [cache EXCEPT
                   !.entry[local_path(cache.client[c].key)] = cache.client[c].inode,
                   !.stats.sets = @ + 1,
                   !.client[c] = IdleClient,
                   !.finished = Append(@, [key |-> cache.client[c].key,
                                           value |-> cache.client[c].value])]
    /\ UNCHANGED notCache

CacheNext ==
    \/ \E c \in DOMAIN cache.client, key \in Keys : CacheGetCall(c, key)
    \/ \E c \in DOMAIN cache.client : CacheGetOpen(c)
    \/ \E c \in DOMAIN cache.client : CacheGetRead(c)
    \/ \E c \in DOMAIN cache.client, key \in Keys, value \in Values :
          CacheSetCall(c, key, value)
    \/ \E c \in DOMAIN cache.client : CacheSetMkdir(c)
    \/ \E c \in DOMAIN cache.client : CacheSetMkstemp(c)
    \/ \E c \in DOMAIN cache.client : CacheSetWrite(c)
    \/ \E c \in DOMAIN cache.client : CacheSetReplace(c)

CacheSpec == CacheInit /\ [][CacheNext]_vars

(***************************************************************************)
(* Properties of the cache                                                 *)
(***************************************************************************)

\* The result get owes when the sets of log came before it, the last set
\* among those that same(key) picks deciding.
Owed(log, same(_)) ==
    LET hits == {i \in DOMAIN log : same(log[i].key)} IN
    IF hits = {} THEN Absent
    ELSE Present(log[CHOOSE i \in hits : \A j \in hits : j <= i].value)

C24_WholeValues ==
    \A i \in DOMAIN cache.got :
        LET g == cache.got[i] IN
        (\A o \in g.started : o.key = g.key) =>
            \/ g.result = Absent
            \/ \E o \in g.started : o.op = "set" /\ g.result = Present(o.value)

\* Two sets of different values on one key and a get of it, all in
\* progress at once; the get returned the value of the set that finished
\* while the other was still writing.
C24_Witness ==
    /\ cache.clients > 1
    /\ \E i \in DOMAIN cache.got :
          LET g == cache.got[i] IN
          /\ \A o \in g.started : o.key = g.key
          /\ g.result.present
          /\ g.result.bytes # << >>
          /\ \E c \in DOMAIN cache.client :
                /\ cache.client[c].pc = "set_write"
                /\ cache.client[c].key = g.key
                /\ cache.client[c].value # g.result.bytes
                /\ cache.data[cache.client[c].inode] # << >>

(***************************************************************************)
(* projects.py: ProjectVersion.get_deps, with the cache used by one thread *)
(***************************************************************************)

\* The most packages a release has in the model.
MaxPackages == 2

\* get(key) and set(key, value) of SimpleCache with no other thread about.
SimpleCacheGet(store, key) ==
    [result |-> store.files[key],
     store |-> IF store.files[key].present
               THEN [store EXCEPT !.stats.hits = @ + 1]
               ELSE [store EXCEPT !.stats.pass = @ + 1]]

SimpleCacheSet(store, key, value) ==
    [store EXCEPT !.files[key] = Present(value), !.stats.sets = @ + 1]

\* The distribution packages of a release: what the index says of each,
\* with the rank of its filename among the filenames of the release.
Distributions ==
    {[has_metadata |-> m, package_type |-> t, zip |-> z, filename |-> f] :
        m \in BOOLEAN, t \in {"wheel", "sdist", "egg"}, z \in BOOLEAN,
        f \in 1..MaxPackages}

PackageLists ==
    {ps \in UNION {[1..n -> Distributions] : n \in 0..MaxPackages} :
        /\ \A i, j \in DOMAIN ps : i # j => ps[i].filename # ps[j].filename
        /\ \A i \in DOMAIN ps : ps[i].zip => ps[i].package_type = "sdist"}

\* The keys get_deps uses: best_pkg.url and best_pkg.url + "#requires.txt".
UrlKey(pkg) == << pkg.filename, "" >>
RequiresTxtKey(pkg) == << pkg.filename, "#requires.txt" >>

DepsKeys == {<< f, s >> : f \in 1..MaxPackages, s \in {"", "#requires.txt"}}

\* The metadata bytes of the model: none, or some.
MetadataBytes == {<< >>, << 1 >>}

Score(pkg) ==
    IF pkg.has_metadata THEN 100
    ELSE IF pkg.package_type = "wheel" THEN 90
    ELSE IF pkg.package_type = "sdist" /\ pkg.zip THEN 50
    ELSE IF pkg.package_type = "sdist" THEN 30
    ELSE 0

\* The scoring loop over packages from the k-th on; best is a package or
\* NoPackage.
NoPackage == [has_metadata |-> FALSE, package_type |-> "none", zip |-> FALSE,
              filename |-> 0]

\* A plausible slip: at equal scores the first one listed is kept.
RECURSIVE BestPackageFirstListed(_, _, _)
BestPackageFirstListed(packages, k, best) ==
    IF k > Len(packages) THEN best
    ELSE LET pkg == packages[k] IN
         IF Score(pkg) > Score(best) THEN BestPackageFirstListed(packages, k + 1, pkg)
         ELSE BestPackageFirstListed(packages, k + 1, best)

RECURSIVE BestPackage(_, _, _)
BestPackage(packages, k, best) ==
    IF k > Len(packages) THEN best
    ELSE LET pkg == packages[k] IN
         IF Score(pkg) = 0 THEN BestPackage(packages, k + 1, best)
         ELSE IF Score(pkg) > Score(best) THEN BestPackage(packages, k + 1, pkg)
         ELSE IF Score(pkg) = Score(best) /\ pkg.filename < best.filename
         THEN BestPackage(packages, k + 1, pkg)
         ELSE BestPackage(packages, k + 1, best)

\* "if md_bytes := cache.get(url)" for a sidecar or a wheel, "if (md_bytes
\* := cache.get(key)) is not None" for an sdist.
CachedUsable(pkg, got) ==
    IF pkg.has_metadata \/ pkg.package_type = "wheel"
    THEN got.present /\ got.bytes # << >>
    ELSE got.present

\* get_deps(ps, session, extracted_metadata_cache): the package it reads,
\* the metadata it ends with, how many times it went to the network, and
\* the cache after it.  remote is what the network has for the package.
get_deps(packages, store, remote) ==
    LET best == BestPackage(packages, 1, NoPackage)
        key == IF best.has_metadata \/ best.package_type = "wheel"
               THEN UrlKey(best) ELSE RequiresTxtKey(best)
        got == SimpleCacheGet(store, key)
    IN IF best = NoPackage
       THEN [best |-> best, md |-> << >>, fetches |-> 0, store |-> store]
       ELSE IF CachedUsable(best, got.result)
       THEN [best |-> best, md |-> got.result.bytes, fetches |-> 0, store |-> got.store]
       ELSE [best |-> best, md |-> remote, fetches |-> 1,
             store |-> SimpleCacheSet(got.store, key, remote)]

\* Every variable but call.
notCall == << pypi_simple, current_version_callback, parallelism, root, nodes,
              memo_fetch, memo_version_metadata, memo_fetch_lock, queue,
              known_conflicts, chosen, pc, frame, pool_q, running, done,
              fetch_submitted, metadata_submitted, calls, drain_result, hist,
              sel, cli, cache >>

\* The walker and the other runs of the model at rest.
AtRest ==
    /\ pypi_simple = CHOOSE u \in Universes : TRUE
    /\ current_version_callback = [n \in Names |-> NoVersion]
    /\ parallelism = 1
    /\ WalkerInit
    /\ sel = NoSel
    /\ cli = NoMain
    /\ cache = CacheUnused

\* A release, a cache with some of the keys set, and the network's answer.
DepsInit ==
    /\ AtRest
    /\ \E packages \in PackageLists, files \in [DepsKeys -> {Absent} \cup
                                                  {Present(b) : b \in MetadataBytes}],
          remote \in MetadataBytes :
          call = [stage |-> "input", fn |-> "get_deps", packages |-> packages,
                  store |-> [files |-> files,
                             stats |-> [hits |-> 0, pass |-> 0, sets |-> 0]],
                  remote |-> remote]

\* md = project_version.get_deps(ps, session, cache)
DepsApply ==
    /\ call.stage = "input"
    /\ call.fn = "get_deps"
    /\ call' = [stage |-> "output", fn |-> "get_deps", packages |-> call.packages,
                store |-> call.store, remote |-> call.remote,
                out |-> get_deps(call.packages, call.store, call.remote)]
    /\ UNCHANGED notCall

DepsNext == DepsApply

DepsSpec == DepsInit /\ [][DepsNext]_vars

(***************************************************************************)
(* Properties of get_deps                                                  *)
(***************************************************************************)

\* The key get_deps looks up for the package it selects.
DepsKey(best) ==
    IF best.has_metadata \/ best.package_type = "wheel"
    THEN UrlKey(best) ELSE RequiresTxtKey(best)

\* The call has returned and had found its key in the cache.
DepsFoundKey ==
    /\ call.stage = "output"
    /\ call.fn = "get_deps"
    /\ call.out.best # NoPackage
    /\ call.store.files[DepsKey(call.out.best)].present

\* C25: a get_deps call that finds its key in the cache, whatever the kind
\* of the distribution and whatever the value stored, the empty value
\* included, goes to the network for nothing and sets nothing: the files
\* of the cache are as before, hits is one more, pass and sets are as
\* before.
C25_HitShortCircuits ==
    DepsFoundKey =>
        /\ call.out.fetches = 0
        /\ call.out.store.files = call.store.files
        /\ call.out.store.stats =
              [call.store.stats EXCEPT !.hits = @ + 1]

(***************************************************************************)
(* markers.py: EnvironmentMarkers                                          *)
(***************************************************************************)

\* Optional[str], a string being the sequence of its characters.
None == [some |-> FALSE, s |-> << >>]
Some(s) == [some |-> TRUE, s |-> s]

\* Python's truth of an Optional[str].
Truthy(o) == o.some /\ o.s # << >>

\* The arguments the model constructs EnvironmentMarkers with.
SysPlatforms == {"linux", "win32", "darwin", "linux2", "x"}
OsNames == {"posix", "nt"}
PythonVersionArgs ==
    {None, Some(<< >>), Some(<< "2", ".", "7" >>), Some(<< "3", ".", "6" >>),
     Some(<< "3", ".", "7" >>)}

\* A plausible slip: win32 sets platform_system and forgets os_name.
PostInitWin32SystemOnly(obj) == [obj EXCEPT !.platform_system = "Windows"]

\* The win32 branch of __post_init__.
PostInitWin32(obj) == [obj EXCEPT !.platform_system = "Windows", !.os_name = "nt"]

\* __post_init__ on the fields the dataclass has just stored: the object,
\* or TypeError.
post_init(obj) ==
    IF obj.sys_platform = "linux"
    THEN [raised |-> FALSE,
          obj |-> IF Truthy(obj.python_version)
                     /\ SubSeq(obj.python_version.s, 1, 1) = << "2" >>
                  THEN [obj EXCEPT !.sys_platform = "linux2"]
                  ELSE obj]
    ELSE IF obj.sys_platform = "win32"
    THEN [raised |-> FALSE, obj |-> PostInitWin32(obj)]
    ELSE IF obj.sys_platform = "darwin"
    THEN [raised |-> FALSE, obj |-> [obj EXCEPT !.platform_system = "Darwin"]]
    ELSE [raised |-> TRUE, obj |-> obj]

\* The fields of the dataclass that the model's markers can name, as the
\* generated __init__ stores them.
Fields(os_name, sys_platform, python_version) ==
    [os_name |-> os_name, sys_platform |-> sys_platform,
     platform_system |-> "Linux", python_version |-> python_version]

\* Markers: None, a comparison of a variable with a literal, or two
\* markers joined by and / or.
NoMarker == [kind |-> "none"]
Atom(var, val) == [kind |-> "==", var |-> var, val |-> val]
AndMarker(l, r) == [kind |-> "and", left |-> l, right |-> r]
OrMarker(l, r) == [kind |-> "or", left |-> l, right |-> r]

MarkerAtoms ==
    {Atom("python_version", << "3", ".", "6" >>), Atom("sys_platform", "win32"),
     Atom("extra", "x"), Atom("extra", "y")}

MatchMarkers ==
    {NoMarker} \cup MarkerAtoms
        \cup {AndMarker(Atom("python_version", << "3", ".", "6" >>), Atom("extra", "x")),
              OrMarker(Atom("sys_platform", "win32"), Atom("extra", "y")),
              AndMarker(Atom("sys_platform", "win32"),
                        OrMarker(Atom("extra", "x"), Atom("extra", "y")))}

\* The extras sequences of the model.
MatchExtras == {<< >>, << "x" >>, << "y" >>, << "x", "y" >>, << "z" >>}

\* The value a variable has in env; python_version as its string.
EnvValue(env, var) ==
    IF var = "python_version" THEN env.python_version.s ELSE env[var]

\* marker.evaluate(env), env holding "extra" too.
RECURSIVE evaluate(_, _)
evaluate(marker, env) ==
    IF marker.kind = "==" THEN EnvValue(env, marker.var) = marker.val
    ELSE IF marker.kind = "and"
    THEN evaluate(marker.left, env) /\ evaluate(marker.right, env)
    ELSE evaluate(marker.left, env) \/ evaluate(marker.right, env)

\* dict(env, extra=e); evaluate itself starts from extra = "".
WithExtra(obj, e) ==
    [os_name |-> obj.os_name, sys_platform |-> obj.sys_platform,
     platform_system |-> obj.platform_system, python_version |-> obj.python_version,
     extra |-> e]

\* A plausible slip: every extra has to satisfy the marker.
AnyExtraAll(marker, obj, extras) ==
    \A i \in DOMAIN extras : evaluate(marker, WithExtra(obj, extras[i]))

\* any(marker.evaluate(dict(env, extra=e)) for e in extras)
AnyExtra(marker, obj, extras) ==
    \E i \in DOMAIN extras : evaluate(marker, WithExtra(obj, extras[i]))

\* EnvironmentMarkers.match(marker, extras)
match(obj, marker, extras) ==
    IF marker # NoMarker
    THEN IF extras # << >>
         THEN IF ~AnyExtra(marker, obj, extras) THEN FALSE ELSE TRUE
         ELSE IF ~evaluate(marker, WithExtra(obj, "")) THEN FALSE ELSE TRUE
    ELSE TRUE

\* EnvironmentMarkers(os_name=..., sys_platform=..., python_version=...)
\* about to be constructed.
MarkersInit ==
    /\ AtRest
    /\ \E o \in OsNames, p \in SysPlatforms, v \in PythonVersionArgs :
          call = [stage |-> "input", fn |-> "EnvironmentMarkers",
                  args |-> Fields(o, p, v), raised |-> FALSE,
                  obj |-> Fields(o, p, v), marker |-> NoMarker, extras |-> << >>,
                  result |-> FALSE]

\* The construction: __init__ stores the fields, __post_init__ runs.
MarkersConstruct ==
    /\ call.stage = "input"
    /\ call.fn = "EnvironmentMarkers"
    /\ LET made == post_init(call.args) IN
       call' = [call EXCEPT !.stage = IF made.raised THEN "raised" ELSE "object",
                            !.raised = made.raised,
                            !.obj = made.obj]
    /\ UNCHANGED notCall

\* obj.match(marker, extras) on the object constructed, its python_version
\* set when the marker names it.
MarkersMatch(marker, extras) ==
    /\ call.stage = "object"
    /\ call.obj.python_version.some
    /\ call' = [call EXCEPT !.stage = "matched", !.marker = marker,
                            !.extras = extras,
                            !.result = match(call.obj, marker, extras)]
    /\ UNCHANGED notCall

MarkersNext ==
    \/ MarkersConstruct
    \/ \E marker \in MatchMarkers, extras \in MatchExtras : MarkersMatch(marker, extras)

MarkersSpec == MarkersInit /\ [][MarkersNext]_vars

(***************************************************************************)
(* Properties of EnvironmentMarkers                                        *)
(***************************************************************************)

Constructed == call.stage = "object" /\ call.fn = "EnvironmentMarkers"

\* C26: win32 yields os_name nt and platform_system Windows; darwin yields
\* platform_system Darwin and leaves os_name as given (posix by default);
\* linux with a python_version that begins with 2 yields sys_platform
\* linux2; any other sys_platform raises and no object is made.
C26_Platforms ==
    /\ call.stage \in {"object", "raised"} /\ call.fn = "EnvironmentMarkers" =>
        /\ call.raised <=> call.args.sys_platform \notin {"linux", "win32", "darwin"}
        /\ call.stage = "raised" <=> call.raised
    /\ Constructed =>
        /\ call.args.sys_platform = "win32" =>
              /\ call.obj.os_name = "nt"
              /\ call.obj.platform_system = "Windows"
              /\ call.obj.sys_platform = "win32"
        /\ call.args.sys_platform = "darwin" =>
              /\ call.obj.platform_system = "Darwin"
              /\ call.obj.os_name = call.args.os_name
              /\ call.obj.sys_platform = "darwin"
        /\ call.args.sys_platform = "linux" =>
              /\ call.obj.sys_platform =
                    IF call.args.python_version.some
                       /\ Len(call.args.python_version.s) > 0
                       /\ call.args.python_version.s[1] = "2"
                    THEN "linux2" ELSE "linux"
              /\ call.obj.os_name = call.args.os_name
              /\ call.obj.platform_system = "Linux"

\* An object constructed for win32 from the defaults.
C26_Witness ==
    /\ Constructed
    /\ call.args.sys_platform = "win32"
    /\ call.args.os_name = "posix"
    /\ call.obj.os_name = "nt"

\* The marker holds in the object's environment with extra bound to e.
HoldsWith(e) ==
    evaluate(call.marker,
             [os_name |-> call.obj.os_name, sys_platform |-> call.obj.sys_platform,
              platform_system |-> call.obj.platform_system,
              python_version |-> call.obj.python_version, extra |-> e])

\* C27: match returns true exactly when the marker is absent, or extras is
\* empty and the marker holds without an extra bound, or extras is not
\* empty and the marker holds with extra bound to one of its elements.
C27_Match ==
    call.stage = "matched" =>
        (call.result <=>
            \/ call.marker = NoMarker
            \/ call.extras = << >> /\ HoldsWith("")
            \/ call.extras # << >>
               /\ \E e \in {call.extras[i] : i \in DOMAIN call.extras} : HoldsWith(e))

\* A match with two extras of which only the second satisfies the marker.
C27_Witness ==
    /\ call.stage = "matched"
    /\ call.marker # NoMarker
    /\ call.result
    /\ Len(call.extras) = 2
    /\ ~HoldsWith(call.extras[1])
    /\ HoldsWith(call.extras[2])
    /\ ~HoldsWith("")

(***************************************************************************)
(* projects.py: convert_sdist_requires                                     *)
(***************************************************************************)

\* Lines of a requires.txt in one input.
MaxLines == 3

\* Strings are sequences of characters.
Str_r == << "r" >>
Str_x == << "x" >>
Str_y == << "y" >>
Str_m == << "m" >>

\* The lines the model writes into requires.txt: blank lines, requirements
\* (bare and padded), and headers of every shape the code distinguishes.
RequiresLines ==
    {<< >>, << " " >>, Str_r, << " ", "r", " " >>, << "[", "r" >>,
     << "[", "x", "]" >>, << " ", "[", "y", "]" >>, << "[", "]" >>,
     << "[", "x", ":", "m", "]" >>, << "[", "x", ":", "]" >>,
     << "[", ":", "m", "]" >>, << "[", ":", "]" >>,
     << "[", "y", ":", "m", ":", "m", "]" >>}

\* "\n".join(lines)
RECURSIVE JoinLines(_)
JoinLines(lines) ==
    IF lines = << >> THEN << >>
    ELSE IF Len(lines) = 1 THEN lines[1]
    ELSE lines[1] \o << "\n" >> \o JoinLines(Tail(lines))

\* data.splitlines(): the text between line ends, a final line end adding
\* no empty line.
RECURSIVE splitlines(_, _)
splitlines(data, line) ==
    IF data = << >> THEN IF line = << >> THEN << >> ELSE << line >>
    ELSE IF Head(data) = "\n" THEN << line >> \o splitlines(Tail(data), << >>)
    ELSE splitlines(Tail(data), Append(line, Head(data)))

\* line.strip()
RECURSIVE lstrip(_)
lstrip(s) == IF s # << >> /\ Head(s) = " " THEN lstrip(Tail(s)) ELSE s

RECURSIVE rstrip(_)
rstrip(s) ==
    IF s # << >> /\ s[Len(s)] = " " THEN rstrip(SubSeq(s, 1, Len(s) - 1)) ELSE s

strip(s) == rstrip(lstrip(s))

\* line[:1] == "[" and line[-1:] == "]"
IsSectionHeader(line) ==
    /\ SubSeq(line, 1, 1) = << "[" >>
    /\ SubSeq(line, Len(line), Len(line)) = << "]" >>

\* ":" in s
HasColon(s) == \E i \in DOMAIN s : s[i] = ":"

\* s.split(":", 1) of a string that has a colon
SplitColon(s) ==
    LET at == CHOOSE i \in DOMAIN s : s[i] = ":" /\ \A j \in 1..(i - 1) : s[j] # ":"
    IN  [extra |-> SubSeq(s, 1, at - 1), markers |-> SubSeq(s, at + 1, Len(s))]

\* repr of a string without quotes or backslashes
Repr(s) == << "'" >> \o s \o << "'" >>

ExtraEq == << "e", "x", "t", "r", "a", " ", "=", "=", " " >>
AndExtraEq == << " ", "a", "n", "d", " " >> \o ExtraEq

\* A plausible slip: the marker is appended whenever a header was seen.
EmittedIfNotNone(line, current_markers) ==
    IF current_markers.some THEN line \o << ";", " " >> \o current_markers.s ELSE line

\* The entry appended for a requirement line.
Emitted(line, current_markers) ==
    IF Truthy(current_markers) THEN line \o << ";", " " >> \o current_markers.s
    ELSE line

\* The header branch: the new current_markers and extras.
AfterHeader(line, extras) ==
    LET inner == SubSeq(line, 2, Len(line) - 1) IN
    IF HasColon(inner)
    THEN LET parts == SplitColon(inner) IN
         IF parts.extra # << >>
         THEN [current_markers |->
                   Some(<< "(" >> \o parts.markers \o << ")" >> \o AndExtraEq
                        \o Repr(parts.extra)),
               extras |-> extras \cup {parts.extra}]
         ELSE [current_markers |-> Some(parts.markers), extras |-> extras]
    ELSE [current_markers |-> Some(ExtraEq \o Repr(inner)), extras |-> extras]

\* The loop over the lines.
RECURSIVE ConvertLoop(_, _, _, _)
ConvertLoop(lines, current_markers, extras, lst) ==
    IF lines = << >> THEN [lst |-> lst, extras |-> extras]
    ELSE LET line == strip(Head(lines)) IN
         IF line = << >>
         THEN ConvertLoop(Tail(lines), current_markers, extras, lst)
         ELSE IF IsSectionHeader(line)
         THEN LET h == AfterHeader(line, extras) IN
              ConvertLoop(Tail(lines), h.current_markers, h.extras, lst)
         ELSE ConvertLoop(Tail(lines), current_markers, extras,
                          Append(lst, Emitted(line, current_markers)))

convert_sdist_requires(data) == ConvertLoop(splitlines(data, << >>), None, {}, << >>)

\* The lines of requires.txt, up to MaxLines of them.
RequiresFiles ==
    UNION {[1..n -> RequiresLines] : n \in 0..MaxLines}

\* A requires.txt about to be converted.
SdistInit ==
    /\ AtRest
    /\ \E lines \in RequiresFiles :
          call = [stage |-> "input", fn |-> "convert_sdist_requires",
                  lines |-> lines, data |-> JoinLines(lines),
                  lst |-> << >>, extras |-> {}]

\* lst, extras = convert_sdist_requires(data)
SdistApply ==
    /\ call.stage = "input"
    /\ call.fn = "convert_sdist_requires"
    /\ LET out == convert_sdist_requires(call.data) IN
       call' = [call EXCEPT !.stage = "output", !.lst = out.lst,
                            !.extras = out.extras]
    /\ UNCHANGED notCall

SdistNext == SdistApply

SdistSpec == SdistInit /\ [][SdistNext]_vars

(***************************************************************************)
(* Properties of convert_sdist_requires                                    *)
(***************************************************************************)

\* The stripped i-th line of the input.
LineAt(i) == strip(call.lines[i])

IsHeaderAt(i) == LineAt(i) # << >> /\ IsSectionHeader(LineAt(i))

IsRequirementAt(i) == LineAt(i) # << >> /\ ~IsSectionHeader(LineAt(i))

\* The requirement lines of the input, and the k-th of them.
RequirementIndices == {i \in DOMAIN call.lines : IsRequirementAt(i)}

KthRequirement(k) ==
    CHOOSE i \in RequirementIndices :
        Cardinality({j \in RequirementIndices : j <= i}) = k

\* The most recent header before line i, 0 when there is none.
HeaderBefore(i) ==
    IF \E h \in 1..(i - 1) : IsHeaderAt(h)
    THEN CHOOSE h \in 1..(i - 1) :
            IsHeaderAt(h) /\ \A g \in (h + 1)..(i - 1) : ~IsHeaderAt(g)
    ELSE 0

\* What is between the brackets of header h, and its two sides of the
\* first colon.
InnerOf(h) == SubSeq(LineAt(h), 2, Len(LineAt(h)) - 1)
NameOf(h) == SplitColon(InnerOf(h)).extra
MarkerOf(h) == SplitColon(InnerOf(h)).markers

\* The entry the statement gives line i; emptyBare is what follows a
\* header [:] whose marker is empty.
ExpectedEntry(i, emptyBare) ==
    LET h == HeaderBefore(i) IN
    IF h = 0 THEN LineAt(i)
    ELSE IF ~HasColon(InnerOf(h))
    THEN LineAt(i) \o << ";", " " >> \o ExtraEq \o Repr(InnerOf(h))
    ELSE IF NameOf(h) # << >>
    THEN LineAt(i) \o << ";", " ", "(" >> \o MarkerOf(h) \o << ")" >> \o AndExtraEq
             \o Repr(NameOf(h))
    ELSE IF MarkerOf(h) = << >> THEN emptyBare
    ELSE LineAt(i) \o << ";", " " >> \o MarkerOf(h)

Converted == call.stage = "output" /\ call.fn = "convert_sdist_requires"

\* The entries are those of the requirement lines, in order, and every
\* [name:marker] header's name is in the extras set.
TranslatedWith(emptyBare(_)) ==
    /\ Len(call.lst) = Cardinality(RequirementIndices)
    /\ \A k \in DOMAIN call.lst :
          call.lst[k] = ExpectedEntry(KthRequirement(k), emptyBare(KthRequirement(k)))
    /\ \A h \in DOMAIN call.lines :
          IsHeaderAt(h) /\ HasColon(InnerOf(h)) /\ NameOf(h) # << >>
              => NameOf(h) \in call.extras

BareWithSemicolon(i) == LineAt(i) \o << ";", " " >>
BareUnchanged(i) == LineAt(i)

\* C28 as stated: every requirement line is emitted with the marker of the
\* most recent header, '; <marker>' after [:marker] whatever the marker.
C28_Original == Converted => TranslatedWith(BareWithSemicolon)

\* C28: every non-empty, non-header line is emitted, stripped, with the
\* marker of the most recent header: unchanged before the first header;
\* '; extra == <name>' after [name]; '; (<marker>) and extra == <name>'
\* after [name:marker], name being in the extras set; '; <marker>' after
\* [:marker] with a marker that is not empty and unchanged after [:]; a
\* new header replaces the previous one's marker entirely.
C28_Translation == Converted => TranslatedWith(BareUnchanged)

\* A requirement under [y] that follows a header [x:m]: the later header
\* alone decides the entry, and x is registered.
C28_Witness ==
    /\ Converted
    /\ Len(call.lines) = 3
    /\ LineAt(1) = << "[", "x", ":", "m", "]" >>
    /\ LineAt(2) = << "[", "y", "]" >>
    /\ IsRequirementAt(3)
    /\ call.lst = << LineAt(3) \o << ";", " " >> \o ExtraEq \o << "'", "y", "'" >> >>
    /\ call.extras = {Str_x}


(***************************************************************************)
(* The worker tasks and the state of the walk                              *)
(***************************************************************************)

\* The walk's own data: the queue, the per-drain chosen map, the conflicts,
\* the root and every Choice and Edge.
WalkData == << queue, chosen, known_conflicts, root, nodes >>

\* C29: a step of _fetch_project or _fetch_project_metadata leaves the
\* queue, chosen, known_conflicts, root and every Choice and Edge as they
\* are, and whenever one of these changes it is the calling thread (feed,
\* clear or drain) that made the step.
C29_WorkerFrame ==
    [][/\ WorkerStep => UNCHANGED << WalkData, pc, frame >>
       /\ WalkData' # WalkData => ~WorkerStep]_vars

\* A prefetch holds the mutex for its insert while drain is awaiting a
\* metadata future, the graph already having a choice in it.
C29_Witness ==
    /\ pc = "drain_md_wait"
    /\ Len(nodes) > 1
    /\ chosen # << >>
    /\ \E w \in running : w.pc = "md_locked" /\ PrefetchRecheck(Reqs(w.task.name, w.task.version)[w.i].name)


(***************************************************************************)
(* The mutex and the inserts into the memo maps                            *)
(***************************************************************************)

\* The thread that makes the step has taken memo_fetch_lock and is inside
\* its with block.
InsertsUnderLock ==
    \/ memo_fetch_lock = "main" /\ (FeedLocked \/ DrainDepLocked)
    \/ memo_fetch_lock = "worker"
       /\ \E w \in running : w.pc = "md_locked" /\ FetchMetadataLocked(w)

\* The thread that makes the step is outside every with block of the mutex.
InsertsWithoutLock ==
    \/ memo_fetch_lock # "main" /\ DrainMetadataSubmit
    \/ \E w \in running : w.pc = "fp_submit" /\ FetchProjectSubmit(w)

\* C30 as stated: every insert into memo_fetch or memo_version_metadata is
\* made by a thread that holds memo_fetch_lock.
C30_Original ==
    [][memo_fetch' # memo_fetch \/ memo_version_metadata' # memo_version_metadata
           => InsertsUnderLock]_vars

\* C30: every insert into memo_fetch, by feed, by drain or by a worker's
\* prefetch, is made by a thread that holds memo_fetch_lock; every insert
\* into memo_version_metadata, by drain or by _fetch_project, is made by a
\* thread that does not hold it.
C30_FetchMemoUnderLock ==
    [][/\ memo_fetch' # memo_fetch => InsertsUnderLock
       /\ memo_version_metadata' # memo_version_metadata => InsertsWithoutLock]_vars

\* feed holds the mutex and is about to insert a project into memo_fetch,
\* an earlier walk having left a release in memo_version_metadata.
C30_Witness ==
    /\ pc = "feed_locked"
    /\ memo_fetch_lock = "main"
    /\ memo_fetch[frame.name] = 0
    /\ \E t \in DOMAIN memo_version_metadata : memo_version_metadata[t] # 0

(***************************************************************************)
(* Properties of one step of drain                                         *)
(***************************************************************************)

\* The step pops the head of the queue (only drain's loop does).
Pops == pc = "drain_loop" /\ queue # << >> /\ queue' = Tail(queue)

\* C31: when drain processes an entry for a name whose version in chosen is
\* admitted by the entry's specifier, the child attached is that version,
\* whatever newer releases and current versions there are, and the step
\* leaves known_conflicts as it is.
C31_ChosenDominates ==
    [][Pops /\ Head(queue).name \in DOMAIN chosen
            /\ Admits(Head(queue).req.specifier, chosen[Head(queue).name])
        => /\ Len(nodes') = Len(nodes) + 1
           /\ nodes'[Len(nodes')].project = Head(queue).name
           /\ nodes'[Len(nodes')].version = chosen[Head(queue).name]
           /\ nodes'[Len(nodes')].parent = Head(queue).parent
           /\ known_conflicts' = known_conflicts
           /\ drain_result' # "raised"]_vars

\* The last child attached repeats the version this drain had recorded for
\* its project although the requirement admits a newer release, and the
\* project has no conflict.
C31_Witness ==
    /\ pc # "idle"
    /\ Len(hist.visited) >= 2
    /\ LET c == nodes[Len(nodes)]
           e == hist.visited[Len(hist.visited)]
       IN /\ c.project = e.name
          /\ \E i \in 1..(Len(hist.visited) - 1) : hist.visited[i].name = e.name
          /\ hist.recorded[e.name] = {c.version}
          /\ c.version < MaxVer
          /\ Admits(e.req.specifier, MaxVer)
          /\ e.name \notin DOMAIN known_conflicts

\* The marker holds for the environment of the model with extra bound to
\* some element of extras, or with no extra when there is none.
Satisfied(marker, extras) ==
    \/ marker = ""
    \/ marker \in ExtraMarkers /\ \E e \in extras : e = ExtraOf(marker)

\* C32: while drain expands the child chosen for requirement req, the
\* dependency r is enqueued exactly when its marker holds with the extras
\* of req (not with r's own), and the entry appended has the child as
\* parent, source "dep" and the processed entry's ancestors plus the
\* child's key.
C32_DepsByParentExtras ==
    [][/\ pc = "drain_deps" /\ (pc' # pc \/ frame' # frame)
          => /\ queue' = queue
             /\ pc' = "drain_dep_locked"
                  <=> Satisfied(Reqs(frame.name, frame.version)[frame.i].marker,
                                frame.req.extras)
       /\ pc = "drain_dep_locked" /\ pc' # pc
          => queue' = Append(queue,
                 [parent |-> frame.choice,
                  name |-> Reqs(frame.name, frame.version)[frame.i].name,
                  req |-> Reqs(frame.name, frame.version)[frame.i],
                  source |-> "dep",
                  parent_keys |-> frame.parent_keys
                                    \cup {<< frame.name, frame.version,
                                             nodes[frame.choice].extras >>}])
       /\ queue' # queue /\ Len(queue') > Len(queue)
          => pc \in {"drain_dep_locked", "feed_locked"}]_vars

\* A release of "b" selected for b[x] has been expanded: its dependency
\* under the extra x is the last entry of the queue, and the one under the
\* extra y, which asks for a[y], is not in the queue.
C32_Witness ==
    /\ pc = "drain_loop"
    /\ queue # << >>
    /\ LET e == queue[Len(queue)] IN
       /\ e.source = "dep"
       /\ e.req.marker = "extra == 'x'"
       /\ nodes[e.parent].project = "b"
       /\ e.parent_keys # {}
    /\ \A i \in DOMAIN queue : queue[i].req.marker # "extra == 'y'"
    /\ \E k \in PVKeys : \E i \in DOMAIN pypi_simple.metadata[k].reqs :
          /\ pypi_simple.metadata[k].reqs[i].marker = "extra == 'y'"
          /\ pypi_simple.metadata[k].reqs[i].extras = {"y"}

(***************************************************************************)
(* Properties of feed                                                      *)
(***************************************************************************)

\* The environment rejects the marker of req.
Rejects(req) == req.marker # "" /\ ~Satisfied(req.marker, {})

\* C33: feed(req) with a marker the environment rejects submits nothing,
\* leaves memo_fetch as it is and enqueues nothing; otherwise feed appends
\* exactly one entry, with parent root and no ancestors, and submits a
\* project fetch only when memo_fetch has no entry for the name.
C33_FeedFrame ==
    [][/\ \A req \in SeedReqs :
            FeedRejected(req) \/ Feed(req)
               => IF Rejects(req)
                  THEN UNCHANGED << memo_fetch, memo_version_metadata, queue, pool_q,
                                    fetch_submitted, metadata_submitted, root, nodes,
                                    known_conflicts, pc >>
                  ELSE /\ pc' = "feed_locked"
                       /\ frame'.req = req
                       /\ UNCHANGED << memo_fetch, queue, pool_q, fetch_submitted >>
       /\ pc = "feed_locked" /\ pc' # pc
            => /\ queue' = Append(queue, [parent |-> root, name |-> frame.req.name,
                                          req |-> frame.req, source |-> "arg",
                                          parent_keys |-> {}])
               /\ IF memo_fetch[frame.req.name] = 0
                  THEN /\ fetch_submitted'[frame.req.name]
                             = fetch_submitted[frame.req.name] + 1
                       /\ memo_fetch'[frame.req.name] # 0
                       /\ Len(pool_q') = Len(pool_q) + 1
                       /\ pool_q'[Len(pool_q')].kind = "project"
                       /\ pool_q'[Len(pool_q')].name = frame.req.name
                  ELSE UNCHANGED << memo_fetch, fetch_submitted, pool_q >>]_vars

\* Two feeds of one name have returned: two entries under root with no
\* ancestors, and one project fetch.
C33_Witness ==
    /\ pc = "idle"
    /\ calls.feed = 2
    /\ calls.drain = 0
    /\ Len(queue) = 2
    /\ queue[1].name = queue[2].name
    /\ queue[1].req # queue[2].req
    /\ \A i \in 1..2 : queue[i].parent = root /\ queue[i].parent_keys = {}
    /\ fetch_submitted[queue[1].name] = 1

(***************************************************************************)
(* Properties of the queue                                                 *)
(***************************************************************************)

\* C34: the queue is first in, first out: every step that changes it
\* either removes its oldest entry, which is the one drain then processes,
\* or adds one entry behind all the others; so what is enqueued while an
\* entry is processed is processed after everything that was already
\* waiting, the seeds in feed order first.
C34_Fifo ==
    [][queue' # queue
        => \/ /\ queue # << >>
              /\ queue' = Tail(queue)
              /\ hist'.visited = Append(hist.visited, [name |-> Head(queue).name,
                                                       req |-> Head(queue).req])
           \/ /\ Len(queue') = Len(queue) + 1
              /\ SubSeq(queue', 1, Len(queue)) = queue]_vars

\* A drain that began with two seeds has processed both of them and then a
\* dependency of the first.
C34_Witness ==
    /\ pc # "idle"
    /\ Len(hist.start.queue) = 2
    /\ Len(hist.visited) >= 3
    /\ LET base == Len(hist.start.nodes) IN
       /\ Len(nodes) >= base + 3
       /\ nodes[base + 1].note = "arg"
       /\ nodes[base + 2].note = "arg"
       /\ nodes[base + 3].note = "dep"
       /\ nodes[base + 3].parent = base + 1
       /\ nodes[base + 3].project = hist.visited[3].name

(***************************************************************************)
(* Properties of a version that is not a release                           *)
(***************************************************************************)

\* Node i is a child whose version is not among its project's releases.
Unpublished(ns, i) ==
    /\ ns[i].project \in Names
    /\ ns[i].version \notin {pypi_simple.project[ns[i].project].versions[k] :
                               k \in DOMAIN pypi_simple.project[ns[i].project].versions}

Rank(pkg) ==
    CASE pkg.has_metadata -> 100
      [] ~pkg.has_metadata /\ pkg.package_type = "wheel" -> 90
      [] ~pkg.has_metadata /\ pkg.package_type = "sdist" /\ pkg.zip -> 50
      [] ~pkg.has_metadata /\ pkg.package_type = "sdist" /\ ~pkg.zip -> 30
      [] OTHER -> 0

\* The distributions of the release that qualify.
Qualifying == {call.packages[i] : i \in {j \in DOMAIN call.packages : Rank(call.packages[j]) > 0}}

DepsReturned == call.stage = "output" /\ call.fn = "get_deps"

\* C36: get_deps reads a distribution of maximum score and, among those,
\* the one whose filename is smallest, whatever the order of the listing;
\* when no distribution qualifies it returns empty metadata and leaves the
\* cache and the network alone.
C36_BestDistribution ==
    DepsReturned =>
        IF Qualifying = {}
        THEN /\ call.out.best = NoPackage
             /\ call.out.md = << >>
             /\ call.out.fetches = 0
             /\ call.out.store = call.store
        ELSE /\ call.out.best \in Qualifying
             /\ \A p \in Qualifying :
                   \/ Rank(p) < Rank(call.out.best)
                   \/ Rank(p) = Rank(call.out.best) /\ p.filename >= call.out.best.filename
             /\ BestPackage(Reverse(call.packages), 1, NoPackage) = call.out.best

\* Two distributions of equal score, the one with the smaller filename
\* listed last, and it is the one read.
C36_Witness ==
    /\ DepsReturned
    /\ Len(call.packages) = 2
    /\ Rank(call.packages[1]) = Rank(call.packages[2])
    /\ Rank(call.packages[1]) > 0
    /\ call.packages[2].filename < call.packages[1].filename
    /\ call.out.best = call.packages[2]

(***************************************************************************)
(* Properties of the extras of a Choice                                    *)
(***************************************************************************)

\* C37: every Choice drain attaches has in its extras field the extras of
\* the requirement it was selected for, so that two Choices of one name
\* and version selected with different extras have different keys.
C37_ExtrasRecorded ==
    [][Pops /\ Len(nodes') = Len(nodes) + 1
        => LET c == nodes'[Len(nodes')] IN
           {c.extras[i] : i \in DOMAIN c.extras} = Head(queue).req.extras]_vars

(***************************************************************************)
(* Properties of the queue and the memo                                    *)
(***************************************************************************)

\* C38: in every state, after clear() and in later walks too, every name
\* in an entry of the queue has a future in memo_fetch, so that drain
\* finds the project future of every entry it pops.
C38_QueuedNamesFetched ==
    \A i \in DOMAIN queue : memo_fetch[queue[i].name] # 0

\* In a walk after clear(), drain has enqueued a dependency on "a" that
\* only the extra x activates and that no seed and no prefetch had asked
\* for: the project fetch is the one drain submitted.
C38_Witness ==
    /\ calls.clear = 1
    /\ calls.drain >= 1
    /\ pc = "drain_loop"
    /\ queue # << >>
    /\ queue[Len(queue)].source = "dep"
    /\ queue[Len(queue)].name = "a"
    /\ queue[Len(queue)].req.marker = "extra == 'x'"
    /\ fetch_submitted["a"] = 1
    /\ \A i \in DOMAIN nodes : nodes[i].project # "a"

\* C39: in every reachable state every entry of known_conflicts holds at
\* least two distinct versions, and a name has an entry only if, in some
\* drain since the last clear(), a version was recorded for it in chosen
\* that differed from the version chosen held for it just before.
C39_ConflictEntries ==
    \A n \in DOMAIN known_conflicts :
        /\ Cardinality(known_conflicts[n]) >= 2
        /\ n \in hist.differed

\* A second drain call after the one that recorded the conflict: the entry
\* is still there although this call has recorded one version only.
C39_Witness ==
    /\ calls.drain = 2
    /\ calls.clear = 0
    /\ \E n \in DOMAIN known_conflicts :
          /\ n \in hist.had_entry
          /\ Cardinality(hist.recorded[n]) = 1
          /\ Cardinality(known_conflicts[n]) >= 2

\* The walk main would make with all of pins fed first: walker.clear(),
\* walker.feed of each pin, then solve().
JointReplay(pins) ==
    Solve(ReplayReqs(pins, cli.deps), Len(nodes) + 1, queue,
          Append(nodes, RootChoice), ConflictsAfterClear).st

\* C40: the pins reported under "Pin these project versions to resolve
\* conflict" resolve the conflicts together: the replay of the original
\* requirements with all reported pins prepended is a walk in which none
\* of the pinned projects is in known_conflicts.
C40_PinsResolveTogether ==
    cli.pc = "done" /\ cli.resolutions # << >> =>
        Pinned \cap DOMAIN JointReplay(cli.resolutions).known_conflicts = {}

====
